---- MODULE Spec2Model ----
(***************************************************************************)
(* NAMASTE-v1: terminology store (namaste_codes, icd11_codes), mapping     *)
(* store (code_mappings) and the handlers that create, update, delete and  *)
(* validate mappings.                                                      *)
(*                                                                         *)
(* Scores and confidences are hundredths (1.00 = 100), the precision of    *)
(* the DECIMAL(3,2) column confidence_score.  Strings that are scored are  *)
(* sequences of one-character strings.                                     *)
(***************************************************************************)
EXTENDS Integers, Sequences, FiniteSets, TLC

VARIABLES
  namasteCodes,   \* table namaste_codes: code -> "absent" | "active" | "inactive"
  parentCodes,    \* column parent_code of namaste_codes: code -> code, "" when null
  icd11Codes,     \* table icd11_codes: rows [icd_id, module, status] in primary-key order
  codeMappings,   \* table code_mappings: rows in primary-key order (id = position)
  stats,          \* MappingCreator.stats
  last,           \* the request that completed last and its response
  reqs            \* in-flight createMapping requests (interleaved specification)

vars == <<namasteCodes, parentCodes, icd11Codes, codeMappings, stats, last, reqs>>

----------------------------------------------------------------------------
(* Bounds *)

\* createMapping calls of one MappingCreator instance that the model follows
MaxProcessed == 3

----------------------------------------------------------------------------
(* Request alphabets and the external registry *)

\* confidence_score absent from the request (undefined), or NaN
NoConfidence == -1

\* confidence_score: null
NullConfidence == -2

\* record id 0: findOne / findByPk returned null
NoRow == 0

SourceCodes == {"NAM001", "SID001", "UNA001"}

\* parent_code null
NoParent == ""

\* request bodies of POST /codes for the codes the model follows
SourceInput(code) ==
  CASE code = "NAM001" -> [display_name |-> <<"A", "b">>, system_type |-> "ayurveda"]
    [] code = "SID001" -> [display_name |-> <<"b", " ", "c">>, system_type |-> "siddha"]
    [] OTHER -> [display_name |-> <<"a", "b", "c">>, system_type |-> "unani"]

TargetIds == {"1001", "1002"}

\* entities that only the automatic mapper and the suggestion engine meet
ExtraTargetIds == {"2001", "2002"}

\* WHO registry answers (getEntityDetails); 1001 and 1002 carry the same
\* secondary code, which the icd11_codes schema allows (code is not unique)
WhoEntity(id) ==
  CASE id = "1001" -> [code |-> "SA00", title |-> <<"a", "b">>]
    [] id = "1002" -> [code |-> "SA00", title |-> <<"a", "b", " ", "c">>]
    [] id = "2001" -> [code |-> "SB01", title |-> <<"a", "b", "c">>]
    [] OTHER -> [code |-> "SB02", title |-> <<"a", "b", " ", "a", "b", "c">>]

\* values a caller sends as icd11_code
TargetCodeInputs == TargetIds \cup {"SA00"}

MappingTypes == {"equivalent", "broader", "narrower", "related"}

\* mapping_type values the model's callers send ("" = field absent)
TypeInputs == {"", "related"}

\* confidence_score values the model's callers send
ConfidenceInputs == {NoConfidence, 0, 50, 150}

----------------------------------------------------------------------------
(* Similarity scorer: helpers.calculateMappingConfidence *)

ToLower(ch) ==
  CASE ch = "A" -> "a"
    [] ch = "B" -> "b"
    [] ch = "C" -> "c"
    [] OTHER -> ch

LowerCase(s) == [i \in 1..Len(s) |-> ToLower(s[i])]

RECURSIVE TrimLeft(_)
TrimLeft(s) ==
  IF s # <<>> /\ Head(s) = " " THEN TrimLeft(Tail(s)) ELSE s

RECURSIVE TrimRight(_)
TrimRight(s) ==
  IF s # <<>> /\ s[Len(s)] = " " THEN TrimRight(SubSeq(s, 1, Len(s) - 1)) ELSE s

Trim(s) == TrimRight(TrimLeft(s))

StartsWith(text, prefix) ==
  /\ Len(prefix) <= Len(text)
  /\ SubSeq(text, 1, Len(prefix)) = prefix

Includes(text, part) ==
  \E i \in 0..(Len(text) - Len(part)) : SubSeq(text, i + 1, i + Len(part)) = part

\* tokens of s separated by runs of blanks
RECURSIVE SplitWords(_, _, _)
SplitWords(s, cur, acc) ==
  IF s = <<>>
    THEN IF cur = <<>> THEN acc ELSE Append(acc, cur)
    ELSE IF Head(s) = " "
      THEN SplitWords(Tail(s), <<>>, IF cur = <<>> THEN acc ELSE Append(acc, cur))
      ELSE SplitWords(Tail(s), Append(cur, Head(s)), acc)

Words(s) == SplitWords(s, <<>>, <<>>)

Max(a, b) == IF a >= b THEN a ELSE b

ExactScore == 100
PrefixScore == 90
SubstringScore == 70
FloorScore == 30
WordWeight == 60

calculateMappingConfidence(sourceDisplay, targetDisplay) ==
  LET a == Trim(LowerCase(sourceDisplay))
      b == Trim(LowerCase(targetDisplay))
      aw == Words(a)
      bw == Words(b)
      matched == Cardinality({i \in 1..Len(aw) :
                    \E j \in 1..Len(bw) : Includes(bw[j], aw[i])})
  IN  IF a = <<>> \/ b = <<>> THEN 0
      ELSE IF a = b THEN ExactScore
      ELSE IF StartsWith(a, b) \/ StartsWith(b, a) THEN PrefixScore
      ELSE IF Includes(a, b) \/ Includes(b, a) THEN SubstringScore
      ELSE Max(FloorScore, (matched * WordWeight) \div Len(aw))

----------------------------------------------------------------------------
(* Store queries *)

SourceActive(code) == code \in SourceCodes /\ namasteCodes[code] = "active"

\* ICD11Code.findOne({ where: { [Op.or]: [{icd_id}, {code}], status: 'active' } }):
\* the first matching row in primary-key order, NoRow when none matches
TargetMatches(row, code) ==
  /\ row.status = "active"
  /\ (row.icd_id = code \/ WhoEntity(row.icd_id).code = code)

FindTarget(code) ==
  LET hits == {i \in 1..Len(icd11Codes) : TargetMatches(icd11Codes[i], code)}
  IN  IF hits = {} THEN NoRow ELSE CHOOSE i \in hits : \A j \in hits : i <= j

TargetRow(icd_id) ==
  LET hits == {i \in 1..Len(icd11Codes) : icd11Codes[i].icd_id = icd_id}
  IN  IF hits = {} THEN NoRow ELSE CHOOSE i \in hits : TRUE

\* mutant: the status of the joined row is not looked at
TargetActiveAnyStatus(icd_id) == TargetRow(icd_id) # NoRow

TargetActive(icd_id) ==
  TargetRow(icd_id) # NoRow /\ icd11Codes[TargetRow(icd_id)].status = "active"

\* mutant: the duplicate lookup filters on is_active: false
FindActiveMappingInverted(tbl, s, t) ==
  LET hits == {i \in 1..Len(tbl) :
                 tbl[i].namaste_code = s /\ tbl[i].icd11_code = t /\ ~tbl[i].is_active}
  IN  IF hits = {} THEN NoRow ELSE CHOOSE i \in hits : \A j \in hits : i <= j

\* CodeMapping.findOne({ where: { namaste_code, icd11_code, is_active: true } })
FindActiveMapping(tbl, s, t) ==
  LET hits == {i \in 1..Len(tbl) :
                 tbl[i].namaste_code = s /\ tbl[i].icd11_code = t /\ tbl[i].is_active}
  IN  IF hits = {} THEN NoRow ELSE CHOOSE i \in hits : \A j \in hits : i <= j

\* CodeMapping.findOne({ where: { namaste_code, icd11_code } })
FindAnyMapping(tbl, s, t) ==
  LET hits == {i \in 1..Len(tbl) :
                 tbl[i].namaste_code = s /\ tbl[i].icd11_code = t}
  IN  IF hits = {} THEN NoRow ELSE CHOOSE i \in hits : \A j \in hits : i <= j

\* validate: { min: 0.00, max: 1.00 } on confidence_score; the validators of
\* a nullable column are not run on null
ConfidenceValid(c) == c = NullConfidence \/ (c >= 0 /\ c <= 100)

\* Joi.number().min(0).max(1) on the body of POST /create
JoiConfidenceValid(c) == c >= 0 /\ c <= 100

\* mutant: the unique index covers active rows only
UniquePairViolationActiveOnly(tbl, s, t) ==
  \E i \in 1..Len(tbl) :
    tbl[i].namaste_code = s /\ tbl[i].icd11_code = t /\ tbl[i].is_active

\* unique index on (namaste_code, icd11_code)
UniquePairViolation(tbl, s, t) ==
  \E i \in 1..Len(tbl) : tbl[i].namaste_code = s /\ tbl[i].icd11_code = t

\* mutant: no unique index on the table
CreateResultNoIndex(tbl, row) ==
  IF ~ConfidenceValid(row.confidence_score) THEN "validation_error" ELSE "created"

\* CodeMapping.create(row): "created", or the error it throws
CreateResult(tbl, row) ==
  IF ~ConfidenceValid(row.confidence_score) THEN "validation_error"
  ELSE IF UniquePairViolation(tbl, row.namaste_code, row.icd11_code)
    THEN "unique_violation"
  ELSE "created"

\* the row of CodeMapping.create; the model's create requests carry no notes
NewMapping(s, t, ty, c) ==
  [namaste_code |-> s, icd11_code |-> t, mapping_type |-> ty,
   confidence_score |-> c, is_active |-> TRUE, notes |-> ""]

\* a falsy confidence_score on the left of "||"
Falsy(c) == c \in {NoConfidence, NullConfidence, 0}

NoReport == [valid |-> 0, invalid |-> 0, issues |-> <<>>]

Response(op, s, t, outcome, id) ==
  [op |-> op, src |-> s, tgt |-> t, outcome |-> outcome, id |-> id,
   report |-> NoReport]

ActiveCount(tbl, s, t) ==
  Cardinality({i \in 1..Len(tbl) :
                 tbl[i].namaste_code = s /\ tbl[i].icd11_code = t /\ tbl[i].is_active})

----------------------------------------------------------------------------
(* Terminology store operations *)

\* NamasteController.createCode: 409 when the code exists, else a new active row
CreateCode(code) ==
  /\ IF namasteCodes[code] # "absent"
       THEN /\ last' = Response("createCode", code, "", "conflict", NoRow)
            /\ UNCHANGED namasteCodes
       ELSE /\ namasteCodes' = [namasteCodes EXCEPT ![code] = "active"]
            /\ last' = Response("createCode", code, "", "created", NoRow)
  /\ UNCHANGED <<parentCodes, icd11Codes, codeMappings, stats, reqs>>

\* NamasteController.updateCode with a status field in the body
UpdateCode(code, status) ==
  /\ IF namasteCodes[code] = "absent"
       THEN /\ last' = Response("updateCode", code, "", "not_found", NoRow)
            /\ UNCHANGED namasteCodes
       ELSE /\ namasteCodes' = [namasteCodes EXCEPT ![code] = status]
            /\ last' = Response("updateCode", code, "", "updated", NoRow)
  /\ UNCHANGED <<parentCodes, icd11Codes, codeMappings, stats, reqs>>

\* ICD11Controller.getTm2Code: local lookup, else fetch from the registry and
\* store the entity; a failing ICD11Code.create (icd_id is unique) is swallowed
GetTm2Code(code) ==
  LET local == {i \in 1..Len(icd11Codes) :
                  TargetMatches(icd11Codes[i], code) /\ icd11Codes[i].module = "tm2"}
  IN
  /\ IF local # {}
       THEN /\ last' = Response("getTm2Code", "", code, "found", NoRow)
            /\ UNCHANGED icd11Codes
       ELSE IF code \in TargetIds \cup ExtraTargetIds /\ TargetRow(code) = NoRow
         THEN /\ icd11Codes' = Append(icd11Codes,
                     [icd_id |-> code, module |-> "tm2", status |-> "active"])
              /\ last' = Response("getTm2Code", "", code, "fetched", NoRow)
         ELSE /\ last' = Response("getTm2Code", "", code, "not_found", NoRow)
              /\ UNCHANGED icd11Codes
  /\ UNCHANGED <<namasteCodes, parentCodes, codeMappings, stats, reqs>>

\* a TargetEntry is deactivated by setting status = inactive
DeactivateTarget(icd_id) ==
  /\ TargetActive(icd_id)
  /\ icd11Codes' = [icd11Codes EXCEPT ![TargetRow(icd_id)].status = "inactive"]
  /\ last' = Response("deactivateTarget", "", icd_id, "updated", NoRow)
  /\ UNCHANGED <<namasteCodes, parentCodes, codeMappings, stats, reqs>>

----------------------------------------------------------------------------
(* Mapping creation, one action per handler *)

DefaultType(ty) == IF ty = "" THEN "equivalent" ELSE ty

ComputedConfidence(s, icd_id) ==
  calculateMappingConfidence(SourceInput(s).display_name, WhoEntity(icd_id).title)

\* confidence_score || helpers.calculateMappingConfidence(...)
ConfidenceOrComputed(c, s, icd_id) ==
  IF Falsy(c) THEN ComputedConfidence(s, icd_id) ELSE c

\* the insert shared by the handlers: append the row or report the error thrown
Persist(op, s, t, row) ==
  LET res == CreateResult(codeMappings, row)
  IN  IF res = "created"
        THEN /\ codeMappings' = Append(codeMappings, row)
             /\ last' = Response(op, s, t, "created", Len(codeMappings) + 1)
        ELSE /\ last' = Response(op, s, t, res, NoRow)
             /\ UNCHANGED codeMappings

\* MappingController.createMapping
ControllerCreate(s, t, ty, c) ==
  LET op == "controller.createMapping"
      ti == FindTarget(t)
      icd == icd11Codes[ti].icd_id
  IN
  /\ IF ~SourceActive(s)
       THEN /\ last' = Response(op, s, t, "source_not_found", NoRow)
            /\ UNCHANGED codeMappings
       ELSE IF ti = NoRow
         THEN /\ last' = Response(op, s, t, "target_not_found", NoRow)
              /\ UNCHANGED codeMappings
       ELSE IF FindActiveMapping(codeMappings, s, icd) # NoRow
         THEN /\ last' = Response(op, s, t, "conflict", NoRow)
              /\ UNCHANGED codeMappings
       ELSE Persist(op, s, t,
              NewMapping(s, icd, DefaultType(ty), ConfidenceOrComputed(c, s, icd)))
  /\ UNCHANGED <<namasteCodes, parentCodes, icd11Codes, stats, reqs>>

\* POST /create: validateCreateMapping (Joi) and the inline route handler
RouteCreate(s, t, ty, c) ==
  LET op == "route.create"
      body == IF c = NoConfidence THEN 100 ELSE c
      ti == FindTarget(t)
      icd == icd11Codes[ti].icd_id
  IN
  /\ IF ~JoiConfidenceValid(body)
       THEN /\ last' = Response(op, s, t, "validation_error", NoRow)
            /\ UNCHANGED codeMappings
       ELSE IF ~SourceActive(s)
         THEN /\ last' = Response(op, s, t, "source_not_found", NoRow)
              /\ UNCHANGED codeMappings
       ELSE IF ti = NoRow
         THEN /\ last' = Response(op, s, t, "target_not_found", NoRow)
              /\ UNCHANGED codeMappings
       ELSE IF FindAnyMapping(codeMappings, s, icd) # NoRow
         THEN /\ last' = Response(op, s, t, "conflict", NoRow)
              /\ UNCHANGED codeMappings
       ELSE Persist(op, s, t,
              NewMapping(s, icd, DefaultType(ty), IF body = 0 THEN 100 ELSE body))
  /\ UNCHANGED <<namasteCodes, parentCodes, icd11Codes, stats, reqs>>

\* MappingService.createMapping: one combined lookup failure, no duplicate check
ServiceCreate(s, t, ty) ==
  LET op == "service.createMapping"
      ti == FindTarget(t)
      icd == icd11Codes[ti].icd_id
  IN
  /\ IF ~SourceActive(s) \/ ti = NoRow
       THEN /\ last' = Response(op, s, t, "source_or_target_not_found", NoRow)
            /\ UNCHANGED codeMappings
       ELSE Persist(op, s, t,
              NewMapping(s, icd, DefaultType(ty), ComputedConfidence(s, icd)))
  /\ UNCHANGED <<namasteCodes, parentCodes, icd11Codes, stats, reqs>>

\* mutant: a duplicate is counted as an error
CountedStatsSkipAsError(outcome) ==
  [stats EXCEPT !.processed = @ + 1,
                !.created = IF outcome = "created" THEN @ + 1 ELSE @,
                !.errors = IF outcome = "created" THEN @ ELSE @ + 1]

\* the counters of MappingCreator.createMapping: created++ / skipped++ on
\* return, errors++ in catch, processed++ in finally
CountedStats(outcome) ==
  [stats EXCEPT !.processed = @ + 1,
                !.created = IF outcome = "created" THEN @ + 1 ELSE @,
                !.skipped = IF outcome = "skipped" THEN @ + 1 ELSE @,
                !.errors = IF outcome \in {"created", "skipped"} THEN @ ELSE @ + 1]

\* MappingCreator.createMapping (batch creator): a duplicate is skipped and the
\* existing mapping returned; every call counts in stats
\* ([sequelize.Op.or] of the target lookup is read as Sequelize's Op.or)
BatchCreate(s, t, ty, c) ==
  LET op == "creator.createMapping"
      ti == FindTarget(t)
      icd == icd11Codes[ti].icd_id
      existing == FindActiveMapping(codeMappings, s, icd)
      row == NewMapping(s, icd, DefaultType(ty), ConfidenceOrComputed(c, s, icd))
      outcome ==
        IF ~SourceActive(s) THEN "source_not_found"
        ELSE IF ti = NoRow THEN "target_not_found"
        ELSE IF existing # NoRow THEN "skipped"
        ELSE CreateResult(codeMappings, row)
  IN
  /\ stats.processed < MaxProcessed
  /\ codeMappings' = IF outcome = "created" THEN Append(codeMappings, row)
                     ELSE codeMappings
  /\ last' = Response(op, s, t, outcome,
                CASE outcome = "created" -> Len(codeMappings) + 1
                  [] outcome = "skipped" -> existing
                  [] OTHER -> NoRow)
  /\ stats' = CountedStats(outcome)
  /\ UNCHANGED <<namasteCodes, parentCodes, icd11Codes, reqs>>

ZeroStats == [processed |-> 0, created |-> 0, skipped |-> 0, errors |-> 0]

\* MappingCreator.resetStats
resetStats ==
  /\ stats # ZeroStats
  /\ stats' = ZeroStats
  /\ last' = Response("creator.resetStats", "", "", "reset", NoRow)
  /\ UNCHANGED <<namasteCodes, parentCodes, icd11Codes, codeMappings, reqs>>

----------------------------------------------------------------------------
(* Update and soft delete *)

\* is_active values of an update body
ActiveInputs == {"unset", "true", "false"}

UpdatedRow(row, ty, c, act) ==
  [row EXCEPT !.mapping_type = IF ty = "" THEN @ ELSE ty,
              !.confidence_score = IF c = NoConfidence THEN @ ELSE c,
              !.is_active = IF act = "unset" THEN @ ELSE (act = "true")]

\* findByPk(id) and mapping.update(fields): the row after the handler ran
UpdateOutcome(id, c) ==
  IF id > Len(codeMappings) THEN "not_found"
  ELSE IF c # NoConfidence /\ ~ConfidenceValid(c) THEN "validation_error"
  ELSE "updated"

UpdateEffect(id, ty, c, act) ==
  codeMappings' =
    IF UpdateOutcome(id, c) = "updated"
      THEN [codeMappings EXCEPT ![id] = UpdatedRow(@, ty, c, act)]
      ELSE codeMappings

\* MappingController.updateMapping and PUT /:id
UpdateMapping(op, id, ty, c, act) ==
  /\ UpdateEffect(id, ty, c, act)
  /\ last' = Response(op, "", "", UpdateOutcome(id, c),
                      IF id > Len(codeMappings) THEN NoRow ELSE id)
  /\ UNCHANGED <<namasteCodes, parentCodes, icd11Codes, stats, reqs>>

\* mutant: the row is destroyed
DeleteEffectHard(id) ==
  codeMappings' =
    IF id > Len(codeMappings) THEN codeMappings
    ELSE SubSeq(codeMappings, 1, id - 1) \o SubSeq(codeMappings, id + 1, Len(codeMappings))

DeleteEffect(id) ==
  codeMappings' =
    IF id > Len(codeMappings) THEN codeMappings
    ELSE [codeMappings EXCEPT ![id].is_active = FALSE]

\* MappingController.deleteMapping and DELETE /:id
DeleteMapping(op, id) ==
  /\ DeleteEffect(id)
  /\ last' = IF id > Len(codeMappings)
               THEN Response(op, "", "", "not_found", NoRow)
               ELSE Response(op, "", "", "deleted", id)
  /\ UNCHANGED <<namasteCodes, parentCodes, icd11Codes, stats, reqs>>

----------------------------------------------------------------------------
(* Validation *)

\* policy constant of the drift check: abs(recalculated - stored) > 0.3
DriftThreshold == 30

Abs(x) == IF x < 0 THEN -x ELSE x

Issue(id, kind) == [mapping_id |-> id, issue |-> kind]

\* mutant: a drifted confidence fails the mapping
RECURSIVE ValidateFromDriftInvalid(_, _)
ValidateFromDriftInvalid(i, acc) ==
  IF i > Len(codeMappings) THEN acc
  ELSE LET m == codeMappings[i]
           recalculated == ComputedConfidence(m.namaste_code, m.icd11_code)
       IN  IF ~m.is_active THEN ValidateFromDriftInvalid(i + 1, acc)
           ELSE IF ~SourceActive(m.namaste_code)
             THEN ValidateFromDriftInvalid(i + 1,
                    [acc EXCEPT !.invalid = @ + 1,
                                !.issues = Append(@, Issue(i, "source_inactive"))])
           ELSE IF ~TargetActive(m.icd11_code)
             THEN ValidateFromDriftInvalid(i + 1,
                    [acc EXCEPT !.invalid = @ + 1,
                                !.issues = Append(@, Issue(i, "target_inactive"))])
           ELSE IF Abs(recalculated - m.confidence_score) > DriftThreshold
             THEN ValidateFromDriftInvalid(i + 1,
                    [acc EXCEPT !.invalid = @ + 1,
                                !.issues = Append(@, Issue(i, "confidence_drift"))])
           ELSE ValidateFromDriftInvalid(i + 1, [acc EXCEPT !.valid = @ + 1])

\* the loop of MappingCreator.validateMappings over the rows from index i on
RECURSIVE ValidateFrom(_, _)
ValidateFrom(i, acc) ==
  IF i > Len(codeMappings) THEN acc
  ELSE LET m == codeMappings[i]
           recalculated == ComputedConfidence(m.namaste_code, m.icd11_code)
       IN  IF ~m.is_active THEN ValidateFrom(i + 1, acc)
           ELSE IF ~SourceActive(m.namaste_code)
             THEN ValidateFrom(i + 1,
                    [acc EXCEPT !.invalid = @ + 1,
                                !.issues = Append(@, Issue(i, "source_inactive"))])
           ELSE IF ~TargetActive(m.icd11_code)
             THEN ValidateFrom(i + 1,
                    [acc EXCEPT !.invalid = @ + 1,
                                !.issues = Append(@, Issue(i, "target_inactive"))])
           ELSE IF Abs(recalculated - m.confidence_score) > DriftThreshold
             THEN ValidateFrom(i + 1,
                    [acc EXCEPT !.valid = @ + 1,
                                !.issues = Append(@, Issue(i, "confidence_drift"))])
           ELSE ValidateFrom(i + 1, [acc EXCEPT !.valid = @ + 1])

\* MappingCreator.validateMappings
validateMappings ==
  /\ last' = [Response("creator.validateMappings", "", "", "report", NoRow)
                EXCEPT !.report = ValidateFrom(1, NoReport)]
  /\ UNCHANGED <<namasteCodes, parentCodes, icd11Codes, codeMappings, stats, reqs>>

\* the checks of MappingService.validateMapping on one row: neither reference
\* check returns early, and the drift check always runs
ValidateOne(id) ==
  LET m == codeMappings[id]
      sourceOk == SourceActive(m.namaste_code)
      targetOk == TargetActive(m.icd11_code)
      recalculated == ComputedConfidence(m.namaste_code, m.icd11_code)
      is_valid == sourceOk /\ targetOk
  IN  [valid |-> IF is_valid THEN 1 ELSE 0,
       invalid |-> IF is_valid THEN 0 ELSE 1,
       issues |->
         (IF sourceOk THEN <<>> ELSE <<Issue(id, "source_inactive")>>)
         \o (IF targetOk THEN <<>> ELSE <<Issue(id, "target_inactive")>>)
         \o (IF Abs(recalculated - m.confidence_score) > DriftThreshold
               THEN <<Issue(id, "confidence_drift")>> ELSE <<>>)]

\* MappingService.validateMapping: findByPk(id), 'Mapping not found' or the report
validateMapping(id) ==
  /\ last' = IF id > Len(codeMappings)
               THEN Response("service.validateMapping", "", "", "not_found", NoRow)
               ELSE [Response("service.validateMapping", "", "", "report", id)
                       EXCEPT !.report = ValidateOne(id)]
  /\ UNCHANGED <<namasteCodes, parentCodes, icd11Codes, codeMappings, stats, reqs>>

----------------------------------------------------------------------------
(* FHIR projection: FhirService.translateCode and generateConceptMap *)

NamasteToken == <<"n", "a", "m", "a", "s", "t", "e">>

IcdToken == <<"i", "c", "d">>

\* system identifiers the callers send: each token alone, one holding both,
\* an upper-case one and one of another family
SystemInputs ==
  { NamasteToken, IcdToken, IcdToken \o <<"-">> \o NamasteToken,
    <<"I", "C", "D">>, <<"s", "c", "t">> }

\* mutant: the token has to open the identifier
SystemStartsWith(system, token) == StartsWith(system, token)

\* system.includes(token): case-sensitive substring test
SystemIncludes(system, token) == Includes(system, token)

TargetUri == "http://id.who.int/icd/entity"

\* `namaste-${system_type}`
SourceSystem(system_type) ==
  CASE system_type = "ayurveda" -> "namaste-ayurveda"
    [] system_type = "siddha" -> "namaste-siddha"
    [] OTHER -> "namaste-unani"

\* one entry of the list translateCode returns, for mapping m in direction dir
Translation(m, dir) ==
  [equivalence |-> m.mapping_type,
   concept |->
     IF dir = "namaste"
       THEN [system |-> TargetUri, code |-> m.icd11_code]
       ELSE [system |-> SourceSystem(SourceInput(m.namaste_code).system_type),
             code |-> m.namaste_code]]

\* mutant: the is_active filter of the findAll is dropped
RECURSIVE TranslateFromAllRows(_, _, _, _)
TranslateFromAllRows(i, dir, code, acc) ==
  IF i > Len(codeMappings) THEN acc
  ELSE LET m == codeMappings[i]
           hit == IF dir = "namaste" THEN m.namaste_code = code
                                     ELSE m.icd11_code = code
       IN  TranslateFromAllRows(i + 1, dir, code,
             IF hit THEN Append(acc, Translation(m, dir)) ELSE acc)

\* CodeMapping.findAll({ where: { <dir>_code: code, is_active: true } }).map(...)
RECURSIVE TranslateFrom(_, _, _, _)
TranslateFrom(i, dir, code, acc) ==
  IF i > Len(codeMappings) THEN acc
  ELSE LET m == codeMappings[i]
           hit == /\ m.is_active
                  /\ IF dir = "namaste" THEN m.namaste_code = code
                                        ELSE m.icd11_code = code
       IN  TranslateFrom(i + 1, dir, code,
             IF hit THEN Append(acc, Translation(m, dir)) ELSE acc)

TranslateResponse(system, code, outcome, matches) ==
  [Response("fhir.translateCode", "", code, outcome, NoRow)
     EXCEPT !.report = [system |-> system, matches |-> matches]]

\* FhirService.translateCode as called by the $translate handlers
translateCode(system, code) ==
  /\ last' =
       IF SystemIncludes(system, NamasteToken)
         THEN IF ~SourceActive(code)
                THEN TranslateResponse(system, code, "not_found", <<>>)
                ELSE TranslateResponse(system, code, "translated",
                       TranslateFrom(1, "namaste", code, <<>>))
       ELSE IF SystemIncludes(system, IcdToken)
         THEN IF ~TargetActive(code)
                THEN TranslateResponse(system, code, "not_found", <<>>)
                ELSE TranslateResponse(system, code, "translated",
                       TranslateFrom(1, "icd", code, <<>>))
       ELSE TranslateResponse(system, code, "unsupported_system", <<>>)
  /\ UNCHANGED <<namasteCodes, parentCodes, icd11Codes, codeMappings, stats, reqs>>

\* limit: 1000 of the findAll in generateConceptMap, scaled to the stores of
\* SpecFhir (three mappings at most)
ConceptMapLimit == 2

\* ids of the active rows the findAll returns: primary-key order, cut at limit
RECURSIVE FindAllActive(_, _, _)
FindAllActive(i, limit, acc) ==
  IF i > Len(codeMappings) \/ Len(acc) = limit THEN acc
  ELSE FindAllActive(i + 1, limit,
         IF codeMappings[i].is_active THEN Append(acc, i) ELSE acc)

\* the element pushed for one mapping
ConceptElement(m) ==
  [code |-> m.namaste_code,
   target |-> <<[code |-> m.icd11_code, equivalence |-> m.mapping_type,
                 comment |-> m.notes]>>]

\* groups[sourceSystem] is created on first use, then element.push(...)
AddToGroups(groups, m) ==
  LET key == SourceSystem(SourceInput(m.namaste_code).system_type)
      at == {g \in 1..Len(groups) : groups[g].source = key}
  IN  IF at = {}
        THEN Append(groups, [source |-> key, target |-> TargetUri,
                             element |-> <<ConceptElement(m)>>])
        ELSE LET g == CHOOSE g \in at : TRUE
             IN  [groups EXCEPT ![g].element = Append(@, ConceptElement(m))]

\* mappings.forEach over the rows found, from position k on
RECURSIVE GroupsFrom(_, _, _)
GroupsFrom(k, ids, groups) ==
  IF k > Len(ids) THEN groups
  ELSE GroupsFrom(k + 1, ids, AddToGroups(groups, codeMappings[ids[k]]))

\* FhirService.generateConceptMap; group = Object.values(groups)
generateConceptMap ==
  /\ last' = [Response("fhir.generateConceptMap", "", "", "concept_map", NoRow)
                EXCEPT !.report =
                  [group |-> GroupsFrom(1, FindAllActive(1, ConceptMapLimit, <<>>),
                                        <<>>)]]
  /\ UNCHANGED <<namasteCodes, parentCodes, icd11Codes, codeMappings, stats, reqs>>

\* notes values an update body carries
NotesInputs == {"reviewed"}

\* MappingController.updateMapping with a body holding notes only
UpdateNotes(id, notes) ==
  /\ codeMappings' = IF id > Len(codeMappings) THEN codeMappings
                     ELSE [codeMappings EXCEPT ![id].notes = notes]
  /\ last' = IF id > Len(codeMappings)
               THEN Response("controller.updateMapping", "", "", "not_found", NoRow)
               ELSE Response("controller.updateMapping", "", "", "updated", id)
  /\ UNCHANGED <<namasteCodes, parentCodes, icd11Codes, stats, reqs>>

----------------------------------------------------------------------------
(* Automatic mapping: MappingCreator.createAutomaticMappings *)

\* bestMatch = null, bestScore = 0
NoBest == [score |-> 0, icd |-> ""]

\* mutant: a later candidate with the same score replaces the best match
RECURSIVE BestFromLastTie(_, _, _, _)
BestFromLastTie(j, s, threshold, best) ==
  IF j > Len(icd11Codes) THEN best
  ELSE LET row == icd11Codes[j]
           score == ComputedConfidence(s, row.icd_id)
       IN  IF /\ row.status = "active" /\ row.module = "tm2"
              /\ score >= best.score /\ score >= threshold
             THEN BestFromLastTie(j + 1, s, threshold,
                                  [score |-> score, icd |-> row.icd_id])
             ELSE BestFromLastTie(j + 1, s, threshold, best)

\* the inner loop over the active tm2 rows, from row j on:
\* if (score > bestScore && score >= threshold) { bestScore, bestMatch }
RECURSIVE BestFrom(_, _, _, _)
BestFrom(j, s, threshold, best) ==
  IF j > Len(icd11Codes) THEN best
  ELSE LET row == icd11Codes[j]
           score == ComputedConfidence(s, row.icd_id)
       IN  IF /\ row.status = "active" /\ row.module = "tm2"
              /\ score > best.score /\ score >= threshold
             THEN BestFrom(j + 1, s, threshold, [score |-> score, icd |-> row.icd_id])
             ELSE BestFrom(j + 1, s, threshold, best)

\* mutant: processed++ after the try block instead of in finally
CountIntoNoFinally(st, outcome) ==
  [st EXCEPT !.processed = IF outcome \in {"created", "skipped"} THEN @ + 1 ELSE @,
             !.created = IF outcome = "created" THEN @ + 1 ELSE @,
             !.skipped = IF outcome = "skipped" THEN @ + 1 ELSE @,
             !.errors = IF outcome \in {"created", "skipped"} THEN @ ELSE @ + 1]

\* the counters after one createMapping call that ended in outcome
CountInto(st, outcome) ==
  [st EXCEPT !.processed = @ + 1,
             !.created = IF outcome = "created" THEN @ + 1 ELSE @,
             !.skipped = IF outcome = "skipped" THEN @ + 1 ELSE @,
             !.errors = IF outcome \in {"created", "skipped"} THEN @ ELSE @ + 1]

\* this.createMapping(s, t, ty, c, notes) inside a batch: the table and the
\* counters it leaves; a throw is caught by the caller, which continues
CreatorCall(acc, s, t, ty, c, notes) ==
  LET ti == FindTarget(t)
      icd == icd11Codes[ti].icd_id
      row == [NewMapping(s, icd, DefaultType(ty), ConfidenceOrComputed(c, s, icd))
                EXCEPT !.notes = notes]
      outcome ==
        IF ~SourceActive(s) THEN "source_not_found"
        ELSE IF ti = NoRow THEN "target_not_found"
        ELSE IF FindActiveMapping(acc.tbl, s, icd) # NoRow THEN "skipped"
        ELSE CreateResult(acc.tbl, row)
  IN  [tbl |-> IF outcome = "created" THEN Append(acc.tbl, row) ELSE acc.tbl,
       stats |-> CountInto(acc.stats, outcome)]

AutoNote == "Automatically generated mapping"

\* the outer loop over the active NAMASTE codes, from position k of the
\* findAll result on
RECURSIVE AutoFrom(_, _, _, _)
AutoFrom(k, order, threshold, acc) ==
  IF k > Len(order) THEN acc
  ELSE LET s == order[k]
           best == BestFrom(1, s, threshold, NoBest)
       IN  IF ~SourceActive(s) \/ best.icd = ""
             THEN AutoFrom(k + 1, order, threshold, acc)
             ELSE AutoFrom(k + 1, order, threshold,
                    CreatorCall(acc, s, best.icd, "equivalent", best.score, AutoNote))

\* MappingCreator.createAutomaticMappings(threshold); order is the row order
\* of the namaste_codes table
createAutomaticMappings(threshold, order) ==
  LET res == AutoFrom(1, order, threshold, [tbl |-> codeMappings, stats |-> ZeroStats])
  IN  /\ codeMappings' = res.tbl
      /\ stats' = res.stats
      /\ last' = [Response("creator.createAutomaticMappings", "", "", "stats", NoRow)
                    EXCEPT !.report = [threshold |-> threshold, order |-> order]]
      /\ UNCHANGED <<namasteCodes, parentCodes, icd11Codes, reqs>>

----------------------------------------------------------------------------
(* Batch creation and import *)

\* the for-of loop of createMappingsFromArray from item k on; an item is
\* <<namaste_code, icd11_code>>, its other fields are absent
RECURSIVE ArrayFrom(_, _, _)
ArrayFrom(k, items, acc) ==
  IF k > Len(items) THEN acc
  ELSE ArrayFrom(k + 1, items,
         CreatorCall(acc, items[k][1], items[k][2], "", NoConfidence, ""))

\* MappingCreator.createMappingsFromArray
createMappingsFromArray(items) ==
  LET res == ArrayFrom(1, items, [tbl |-> codeMappings, stats |-> ZeroStats])
  IN  /\ codeMappings' = res.tbl
      /\ stats' = res.stats
      /\ last' = [Response("creator.createMappingsFromArray", "", "", "stats", NoRow)
                    EXCEPT !.report = [items |-> items]]
      /\ UNCHANGED <<namasteCodes, parentCodes, icd11Codes, reqs>>

\* parseFloat of the confidence column, in hundredths; NaN when the value
\* does not start with a number
ParseFloat(value) ==
  CASE value = "0.5" -> 50
    [] value = "1.5" -> 150
    [] value = "-0.5" -> -50
    [] OTHER -> NoConfidence

\* the loop of createMappingsFromCSV from data line k on; a line is the
\* sequence of its comma-separated values, <<>> for a blank line: a blank
\* line and a line with fewer than two values are passed over
RECURSIVE CsvFrom(_, _, _)
CsvFrom(k, lines, acc) ==
  IF k > Len(lines) THEN acc
  ELSE IF Len(lines[k]) < 2 THEN CsvFrom(k + 1, lines, acc)
  ELSE LET values == lines[k]
           mapping_type == IF Len(values) >= 3 THEN values[3] ELSE ""
           confidence_score == IF Len(values) >= 4 /\ values[4] # ""
                                 THEN ParseFloat(values[4]) ELSE NullConfidence
       IN  CsvFrom(k + 1, lines,
             CreatorCall(acc, values[1], values[2], mapping_type, confidence_score, ""))

\* MappingCreator.createMappingsFromCSV
createMappingsFromCSV(lines) ==
  LET res == CsvFrom(1, lines, [tbl |-> codeMappings, stats |-> ZeroStats])
  IN  /\ codeMappings' = res.tbl
      /\ stats' = res.stats
      /\ last' = [Response("creator.createMappingsFromCSV", "", "", "stats", NoRow)
                    EXCEPT !.report = [items |-> lines]]
      /\ UNCHANGED <<namasteCodes, parentCodes, icd11Codes, reqs>>

NoImport == [imported |-> 0, skipped |-> 0, errors |-> 0]

\* a null element of codesArray
NullItem == [code |-> "null", display |-> FALSE, parent_code |-> NoParent]

\* the loop of NamasteService.importCodes from item k on; an item is
\* [code, display, parent_code] with display FALSE when display_name is
\* missing; validateCode wants an active row for a parent_code. Reading
\* codeData.code of a null element throws in the try block and again in the
\* catch block that builds the error entry: that throw leaves the loop.
RECURSIVE ImportFrom(_, _, _, _)
ImportFrom(k, items, validate, acc) ==
  IF k > Len(items) THEN acc
  ELSE IF items[k] = NullItem THEN [acc EXCEPT !.raised = TRUE]
  ELSE LET item == items[k]
           exists == acc.codes[item.code] # "absent"
           parentMissing == /\ item.parent_code # NoParent
                            /\ \/ item.parent_code \notin SourceCodes
                               \/ acc.codes[item.parent_code] # "active"
           failed == [acc EXCEPT !.result.errors = @ + 1]
       IN  IF validate /\ (~item.display \/ parentMissing \/ exists)
             THEN ImportFrom(k + 1, items, validate, failed)
           ELSE IF exists
             THEN ImportFrom(k + 1, items, validate,
                              [acc EXCEPT !.result.skipped = @ + 1])
           ELSE IF ~item.display
             THEN ImportFrom(k + 1, items, validate, failed)
           ELSE ImportFrom(k + 1, items, validate,
                  [acc EXCEPT !.codes[item.code] = "active",
                              !.parents[item.code] = item.parent_code,
                              !.result.imported = @ + 1])

\* NamasteService.importCodes(codesArray, { validate }): the outer catch logs
\* and rethrows, the rows created before the throw stay
importCodes(items, validate) ==
  LET res == ImportFrom(1, items, validate,
                        [codes |-> namasteCodes, parents |-> parentCodes,
                         result |-> NoImport, raised |-> FALSE])
  IN  /\ namasteCodes' = res.codes
      /\ parentCodes' = res.parents
      /\ last' = [Response("namaste.importCodes", "", "",
                            IF res.raised THEN "raised" ELSE "stats", NoRow)
                    EXCEPT !.report = [items |-> items, result |-> res.result]]
      /\ UNCHANGED <<icd11Codes, codeMappings, stats, reqs>>

----------------------------------------------------------------------------
(* Suggestions: MappingService.findSuggestedMappings *)

\* display_name.toLowerCase().split(/\s+/).filter(term => term.length > 2)
SearchTerms(display) ==
  SelectSeq(Words(LowerCase(display)), LAMBDA term : Len(term) > 2)

\* title LIKE '%term%' for one of the terms (case-insensitive collation)
TitleMatches(title, terms) ==
  \E k \in 1..Len(terms) : Includes(LowerCase(title), terms[k])

\* collation order of the characters of the model's titles
CharRank(ch) ==
  CASE ch = " " -> 0
    [] ch = "a" -> 1
    [] ch = "b" -> 2
    [] OTHER -> 3

\* a sorts before b in ORDER BY title ASC
RECURSIVE TitleBefore(_, _)
TitleBefore(a, b) ==
  IF a = <<>> THEN b # <<>>
  ELSE IF b = <<>> THEN FALSE
  ELSE IF CharRank(Head(a)) # CharRank(Head(b))
    THEN CharRank(Head(a)) < CharRank(Head(b))
  ELSE TitleBefore(Tail(a), Tail(b))

\* the rows of ids in ORDER BY title ASC (ties in primary-key order)
RECURSIVE OrderByTitle(_, _)
OrderByTitle(ids, acc) ==
  IF ids = {} THEN acc
  ELSE LET first == CHOOSE i \in ids :
             \A j \in ids \ {i} :
               \/ TitleBefore(WhoEntity(icd11Codes[i].icd_id).title,
                              WhoEntity(icd11Codes[j].icd_id).title)
               \/ /\ ~TitleBefore(WhoEntity(icd11Codes[j].icd_id).title,
                                  WhoEntity(icd11Codes[i].icd_id).title)
                  /\ i < j
       IN  OrderByTitle(ids \ {first}, Append(acc, first))

\* source.split(' ').length
WordCount(text) == Cardinality({i \in 1..Len(text) : text[i] = " "}) + 1

\* MappingService.suggestMappingType
suggestMappingType(sourceDisplay, targetDisplay) ==
  LET source == LowerCase(sourceDisplay)
      target == LowerCase(targetDisplay)
  IN  IF source = target \/ Includes(source, target) \/ Includes(target, source)
        THEN "equivalent"
      ELSE IF WordCount(source) > WordCount(target) THEN "narrower"
      ELSE IF WordCount(target) > WordCount(source) THEN "broader"
      ELSE "related"

\* one entry of suggestions.map(...)
Suggestion(s, icd_id) ==
  [icd11_code |-> icd_id,
   confidence_score |-> ComputedConfidence(s, icd_id),
   suggested_mapping_type |->
     suggestMappingType(SourceInput(s).display_name, WhoEntity(icd_id).title)]

\* ICD11Code.findAll({ where: { [Op.or]: LIKEs, module, status }, limit,
\* order: [['title', 'ASC']] }): the first limit rows in title order
SuggestedRows(s, limit) ==
  LET terms == SearchTerms(SourceInput(s).display_name)
      hits == {i \in 1..Len(icd11Codes) :
                 /\ icd11Codes[i].module = "tm2"
                 /\ icd11Codes[i].status = "active"
                 /\ TitleMatches(WhoEntity(icd11Codes[i].icd_id).title, terms)}
      sorted == OrderByTitle(hits, <<>>)
  IN  SubSeq(sorted, 1, IF Len(sorted) < limit THEN Len(sorted) ELSE limit)

\* MappingService.findSuggestedMappings as called by getSuggestedMappings
findSuggestedMappings(s, limit) ==
  /\ last' =
       IF ~SourceActive(s)
         THEN [Response("service.findSuggestedMappings", s, "", "source_not_found", NoRow)
                 EXCEPT !.report = [limit |-> limit, suggestions |-> <<>>]]
         ELSE [Response("service.findSuggestedMappings", s, "", "suggestions", NoRow)
                 EXCEPT !.report =
                   [limit |-> limit,
                    suggestions |->
                      LET rows == SuggestedRows(s, limit)
                      IN  [k \in 1..Len(rows) |->
                             Suggestion(s, icd11Codes[rows[k]].icd_id)]]]
  /\ UNCHANGED <<namasteCodes, parentCodes, icd11Codes, codeMappings, stats, reqs>>

----------------------------------------------------------------------------
(* Specification of the sequential request handlers *)

Init ==
  /\ namasteCodes = [c \in SourceCodes |-> "absent"]
  /\ parentCodes = [c \in SourceCodes |-> NoParent]
  /\ icd11Codes = <<>>
  /\ codeMappings = <<>>
  /\ stats = ZeroStats
  /\ last = Response("init", "", "", "none", NoRow)
  /\ reqs = <<>>

MappingIds == 1..(Len(codeMappings) + 1)

\* the source code the callers of this specification work on
ApiSources == {"NAM001"}

\* update bodies the callers send: reactivate, set a confidence, set the type,
\* an out-of-range confidence
UpdateBodies ==
  { [ty |-> "", c |-> NoConfidence, act |-> "true"],
    [ty |-> "", c |-> 0, act |-> "unset"],
    [ty |-> "related", c |-> NoConfidence, act |-> "false"],
    [ty |-> "", c |-> 150, act |-> "true"] }

Next ==
  \/ \E code \in ApiSources : CreateCode(code)
  \/ \E code \in ApiSources, st \in {"active", "inactive"} : UpdateCode(code, st)
  \/ \E code \in TargetCodeInputs : GetTm2Code(code)
  \/ \E id \in TargetIds : DeactivateTarget(id)
  \/ \E s \in ApiSources, t \in TargetCodeInputs, ty \in TypeInputs,
        c \in ConfidenceInputs : ControllerCreate(s, t, ty, c)
  \/ \E s \in ApiSources, t \in TargetCodeInputs, ty \in TypeInputs,
        c \in ConfidenceInputs : RouteCreate(s, t, ty, c)
  \/ \E s \in ApiSources, t \in TargetCodeInputs, ty \in TypeInputs :
        ServiceCreate(s, t, ty)
  \/ \E id \in MappingIds, b \in UpdateBodies :
        UpdateMapping("controller.updateMapping", id, b.ty, b.c, b.act)
  \/ \E id \in MappingIds, b \in UpdateBodies :
        UpdateMapping("route.update", id, b.ty, b.c, b.act)
  \/ \E id \in MappingIds : DeleteMapping("controller.deleteMapping", id)
  \/ \E id \in MappingIds : DeleteMapping("route.delete", id)

Spec == Init /\ [][Next]_vars

----------------------------------------------------------------------------
(* Specification of the MappingCreator script on a populated catalogue *)

TargetOrders ==
  { <<[icd_id |-> "1001", module |-> "tm2", status |-> "active"],
      [icd_id |-> "1002", module |-> "tm2", status |-> "active"]>>,
    <<[icd_id |-> "1002", module |-> "tm2", status |-> "active"],
      [icd_id |-> "1001", module |-> "tm2", status |-> "active"]>> }

InitBatch ==
  /\ namasteCodes = [c \in SourceCodes |-> "active"]
  /\ parentCodes = [c \in SourceCodes |-> NoParent]
  /\ icd11Codes \in TargetOrders
  /\ codeMappings = <<>>
  /\ stats = ZeroStats
  /\ last = Response("init", "", "", "none", NoRow)
  /\ reqs = <<>>

NextBatch ==
  \/ \E s \in ApiSources, t \in TargetCodeInputs, ty \in TypeInputs,
        c \in ConfidenceInputs : BatchCreate(s, t, ty, c)
  \/ resetStats
  \/ validateMappings
  \/ \E code \in ApiSources, st \in {"active", "inactive"} : UpdateCode(code, st)
  \/ \E id \in TargetIds : DeactivateTarget(id)
  \/ \E id \in MappingIds : DeleteMapping("route.delete", id)

SpecBatch == InitBatch /\ [][NextBatch]_vars

----------------------------------------------------------------------------
(* Specification of the two validators on a populated catalogue *)

\* confidences the callers of this specification send: none, 0.50
ValidateConfidences == {NoConfidence, 50}

NextValidate ==
  \/ \E s \in ApiSources, t \in TargetIds, c \in ValidateConfidences :
        ControllerCreate(s, t, "", c)
  \/ \E code \in ApiSources, st \in {"active", "inactive"} : UpdateCode(code, st)
  \/ \E id \in TargetIds : DeactivateTarget(id)
  \/ \E id \in MappingIds : DeleteMapping("controller.deleteMapping", id)
  \/ validateMappings
  \/ \E id \in MappingIds : validateMapping(id)

SpecValidate == InitBatch /\ [][NextValidate]_vars

----------------------------------------------------------------------------
(* Specification of the FHIR projections over a changing mapping table *)

\* the create requests of this specification's callers
FhirCreates ==
  { [s |-> "NAM001", t |-> "1001", ty |-> ""],
    [s |-> "NAM001", t |-> "1002", ty |-> "related"],
    [s |-> "SID001", t |-> "1001", ty |-> "broader"] }

\* codes sent to $translate
TranslateCodes == SourceCodes \cup TargetCodeInputs

NextFhir ==
  \/ \E b \in FhirCreates : ControllerCreate(b.s, b.t, b.ty, NoConfidence)
  \/ \E id \in MappingIds : DeleteMapping("controller.deleteMapping", id)
  \/ \E n \in NotesInputs : UpdateNotes(1, n)
  \/ UpdateCode("SID001", "inactive")
  \/ DeactivateTarget("1002")
  \/ \E system \in SystemInputs, code \in TranslateCodes :
        translateCode(system, code)
  \/ generateConceptMap

SpecFhir == InitBatch /\ [][NextFhir]_vars

----------------------------------------------------------------------------
(* Specification of the automatic mapper on a catalogue that changes *)

\* thresholds the script is started with (hundredths)
AutoThresholds == {30, 70, 95}

\* row orders of namaste_codes
AutoSourceOrders == {<<"NAM001", "SID001">>, <<"SID001", "NAM001">>}

AutoTargetIds == {"1001", "1002", "2001"}

TargetRowOf(id) == [icd_id |-> id, module |-> "tm2", status |-> "active"]

\* row orders of icd11_codes: either of the two equally scored candidates of
\* NAM001 (1002, 2001) can come first
AutoTargetOrders ==
  { <<TargetRowOf("1001"), TargetRowOf("1002"), TargetRowOf("2001")>>,
    <<TargetRowOf("2001"), TargetRowOf("1001"), TargetRowOf("1002")>> }

InitAuto ==
  /\ namasteCodes = [c \in SourceCodes |-> IF c = "UNA001" THEN "absent" ELSE "active"]
  /\ parentCodes = [c \in SourceCodes |-> NoParent]
  /\ icd11Codes \in AutoTargetOrders
  /\ codeMappings = <<>>
  /\ stats = ZeroStats
  /\ last = Response("init", "", "", "none", NoRow)
  /\ reqs = <<>>

NextAuto ==
  \/ \E th \in AutoThresholds, order \in AutoSourceOrders :
        createAutomaticMappings(th, order)
  \/ \E id \in MappingIds : DeleteMapping("route.delete", id)
  \/ \E id \in AutoTargetIds : DeactivateTarget(id)
  \/ UpdateCode("SID001", "inactive")

SpecAuto == InitAuto /\ [][NextAuto]_vars

----------------------------------------------------------------------------
(* Specification of the suggestion engine on a catalogue being filled *)

\* limit values of GET /suggestions/:code
SuggestLimits == {1, 2}

\* the source whose display name has a search term (longer than 2 characters)
SuggestSources == {"UNA001"}

SuggestTargetIds == {"1001", "2001", "2002"}

InitSuggest ==
  /\ namasteCodes = [c \in SourceCodes |-> IF c \in SuggestSources THEN "active" ELSE "absent"]
  /\ parentCodes = [c \in SourceCodes |-> NoParent]
  /\ icd11Codes = <<>>
  /\ codeMappings = <<>>
  /\ stats = ZeroStats
  /\ last = Response("init", "", "", "none", NoRow)
  /\ reqs = <<>>

NextSuggest ==
  \/ \E code \in SuggestTargetIds : GetTm2Code(code)
  \/ \E id \in SuggestTargetIds : DeactivateTarget(id)
  \/ \E s \in SuggestSources, st \in {"active", "inactive"} : UpdateCode(s, st)
  \/ \E s \in SuggestSources, limit \in SuggestLimits : findSuggestedMappings(s, limit)

SpecSuggest == InitSuggest /\ [][NextSuggest]_vars

----------------------------------------------------------------------------
(* Specification of the batch operations *)

MaxBatch == 2

\* sequences over alphabet of length 1..MaxBatch
Batches(alphabet) ==
  UNION {[1..n -> alphabet] : n \in 1..MaxBatch}

\* items of a mapping batch: a good pair, a source that may not exist yet,
\* a target that does not exist
BatchItems ==
  { <<"NAM001", "1001">>, <<"SID001", "1001">>, <<"NAM001", "9999">> }

\* data lines of a CSV file: a good pair, a line with one value, a blank line
CsvLines == { <<"NAM001", "1001">>, <<"NAM001">>, <<>> }

\* items of an import: a new code (an existing one when imported again), a
\* code without display_name, a null element
ImportItems ==
  { [code |-> "SID001", display |-> TRUE, parent_code |-> NoParent],
    [code |-> "UNA001", display |-> FALSE, parent_code |-> NoParent],
    NullItem }

InitBulk ==
  /\ namasteCodes = [c \in SourceCodes |-> IF c = "NAM001" THEN "active" ELSE "absent"]
  /\ parentCodes = [c \in SourceCodes |-> NoParent]
  /\ icd11Codes = <<TargetRowOf("1001"), TargetRowOf("1002")>>
  /\ codeMappings = <<>>
  /\ stats = ZeroStats
  /\ last = Response("init", "", "", "none", NoRow)
  /\ reqs = <<>>

NextBulk ==
  \/ \E items \in Batches(BatchItems) : createMappingsFromArray(items)
  \/ \E lines \in Batches(CsvLines) : createMappingsFromCSV(lines)
  \/ \E order \in AutoSourceOrders : createAutomaticMappings(70, order)
  \/ \E items \in Batches(ImportItems), validate \in BOOLEAN :
        importCodes(items, validate)
  \/ DeleteMapping("route.delete", 1)

SpecBulk == InitBulk /\ [][NextBulk]_vars

----------------------------------------------------------------------------
(* Concurrent createMapping requests: one step per awaited store call *)

Slots == {1, 2}

\* slot 1 serves HTTP requests; slot 2 a second HTTP request or the script
VariantsOf(r) ==
  IF r = 1 THEN {"controller", "route", "service"} ELSE {"controller", "creator"}

Idle ==
  [pc |-> "idle", variant |-> "", src |-> "", tgt |-> "", srcFound |-> FALSE,
   icd |-> "", outcome |-> "", id |-> NoRow]

\* the handler is entered and its first store call is pending; the script's
\* "single" command constructs a fresh MappingCreator for its one call
Begin(r, variant, s, t) ==
  /\ reqs[r].pc = "idle"
  /\ reqs' = [reqs EXCEPT ![r] =
                [Idle EXCEPT !.pc = "findSource", !.variant = variant,
                             !.src = s, !.tgt = t]]
  /\ stats' = IF variant = "creator" THEN ZeroStats ELSE stats
  /\ UNCHANGED <<namasteCodes, parentCodes, icd11Codes, codeMappings, last>>

Fail(r, outcome) ==
  reqs' = [reqs EXCEPT ![r].pc = "done", ![r].outcome = outcome]

\* NamesteCode.findOne resolves; controller and creator check it at once,
\* the route and the service go on to the target lookup
FindSourceStep(r) ==
  LET q == reqs[r]
      found == SourceActive(q.src)
  IN
  /\ q.pc = "findSource"
  /\ IF ~found /\ q.variant \in {"controller", "creator"}
       THEN Fail(r, "source_not_found")
       ELSE reqs' = [reqs EXCEPT ![r].pc = "findTarget", ![r].srcFound = found]
  /\ UNCHANGED <<namasteCodes, parentCodes, icd11Codes, codeMappings, stats, last>>

\* ICD11Code.findOne resolves, followed by the checks the handler makes
FindTargetStep(r) ==
  LET q == reqs[r]
      ti == FindTarget(q.tgt)
  IN
  /\ q.pc = "findTarget"
  /\ IF q.variant = "service" /\ (~q.srcFound \/ ti = NoRow)
       THEN Fail(r, "source_or_target_not_found")
     ELSE IF ~q.srcFound THEN Fail(r, "source_not_found")
     ELSE IF ti = NoRow THEN Fail(r, "target_not_found")
     ELSE reqs' = [reqs EXCEPT
                     ![r].icd = icd11Codes[ti].icd_id,
                     ![r].pc = IF q.variant = "service" THEN "create"
                               ELSE "findExisting"]
  /\ UNCHANGED <<namasteCodes, parentCodes, icd11Codes, codeMappings, stats, last>>

\* CodeMapping.findOne resolves: the duplicate check
FindExistingStep(r) ==
  LET q == reqs[r]
      existing == IF q.variant = "route"
                    THEN FindAnyMapping(codeMappings, q.src, q.icd)
                    ELSE FindActiveMapping(codeMappings, q.src, q.icd)
  IN
  /\ q.pc = "findExisting"
  /\ IF existing = NoRow
       THEN reqs' = [reqs EXCEPT ![r].pc = "create"]
       ELSE reqs' = [reqs EXCEPT ![r].pc = "done", ![r].id = existing,
                        ![r].outcome = IF q.variant = "creator" THEN "skipped"
                                       ELSE "conflict"]
  /\ UNCHANGED <<namasteCodes, parentCodes, icd11Codes, codeMappings, stats, last>>

\* CodeMapping.create resolves or rejects
CreateStep(r) ==
  LET q == reqs[r]
      conf == IF q.variant = "route" THEN 100 ELSE ComputedConfidence(q.src, q.icd)
      row == NewMapping(q.src, q.icd, "equivalent", conf)
      res == CreateResult(codeMappings, row)
  IN
  /\ q.pc = "create"
  /\ IF res = "created"
       THEN /\ codeMappings' = Append(codeMappings, row)
            /\ reqs' = [reqs EXCEPT ![r].pc = "done", ![r].outcome = "created",
                           ![r].id = Len(codeMappings) + 1]
       ELSE /\ Fail(r, res)
            /\ UNCHANGED codeMappings
  /\ UNCHANGED <<namasteCodes, parentCodes, icd11Codes, stats, last>>

\* the handler responds (the creator counts the call in stats)
Finish(r) ==
  LET q == reqs[r]
  IN
  /\ q.pc = "done"
  /\ stats' = IF q.variant = "creator" THEN CountedStats(q.outcome) ELSE stats
  /\ reqs' = [reqs EXCEPT ![r] = Idle]
  /\ UNCHANGED <<namasteCodes, parentCodes, icd11Codes, codeMappings, last>>

InitRace ==
  /\ namasteCodes = [c \in SourceCodes |-> IF c \in ApiSources THEN "active" ELSE "absent"]
  /\ parentCodes = [c \in SourceCodes |-> NoParent]
  /\ icd11Codes \in TargetOrders
  /\ codeMappings = <<>>
  /\ stats = ZeroStats
  /\ last = Response("init", "", "", "none", NoRow)
  /\ reqs = [r \in Slots |-> Idle]

\* updateMapping with { is_active: true } and deleteMapping, between the steps
RaceUpdate(id) ==
  /\ UpdateEffect(id, "", NoConfidence, "true")
  /\ UNCHANGED <<namasteCodes, parentCodes, icd11Codes, stats, last, reqs>>

RaceDelete(id) ==
  /\ DeleteEffect(id)
  /\ UNCHANGED <<namasteCodes, parentCodes, icd11Codes, stats, last, reqs>>

NextRace ==
  \/ \E r \in Slots : \E v \in VariantsOf(r), s \in ApiSources,
        t \in TargetCodeInputs : Begin(r, v, s, t)
  \/ \E r \in Slots : FindSourceStep(r)
  \/ \E r \in Slots : FindTargetStep(r)
  \/ \E r \in Slots : FindExistingStep(r)
  \/ \E r \in Slots : CreateStep(r)
  \/ \E r \in Slots : Finish(r)
  \/ \E id \in MappingIds : RaceUpdate(id)
  \/ \E id \in MappingIds : RaceDelete(id)

SpecRace == InitRace /\ [][NextRace]_vars

----------------------------------------------------------------------------
(* Audit trail: AuditService.logAction and the handlers that await it *)

\* what AuditLog.create does when a handler writes its entry
SinkStates == {"up", "down"}

\* mutant: the catch block of logAction rethrows
logActionRethrows(sink, action) == IF sink = "up" THEN action ELSE "thrown"

\* AuditService.logAction: the action of the entry written, "null" when
\* AuditLog.create throws (the catch block logs and returns null)
logAction(sink, action) == IF sink = "up" THEN action ELSE "null"

\* a handler's response when it returns before its store write: logAction
\* is not called
Unaudited(resp, sink) ==
  [resp EXCEPT !.report = [sink |-> sink, audit |-> "none"]]

\* the rest of a handler after its store write: await logAction, then the
\* success response; a throw of the awaited call reaches the handler's catch
\* block, which hands the error to next()
AfterWrite(resp, action, sink) ==
  LET audit == logAction(sink, action)
  IN  [resp EXCEPT !.outcome = IF audit = "thrown" THEN "error" ELSE @,
                   !.report = [sink |-> sink, audit |-> audit]]

\* MappingController.createMapping with its audit call
CreateMappingAudited(s, t, ty, c, sink) ==
  LET op == "controller.createMapping"
      ti == FindTarget(t)
      icd == icd11Codes[ti].icd_id
      row == NewMapping(s, icd, DefaultType(ty), ConfidenceOrComputed(c, s, icd))
      outcome ==
        IF ~SourceActive(s) THEN "source_not_found"
        ELSE IF ti = NoRow THEN "target_not_found"
        ELSE IF FindActiveMapping(codeMappings, s, icd) # NoRow THEN "conflict"
        ELSE CreateResult(codeMappings, row)
  IN
  /\ codeMappings' = IF outcome = "created" THEN Append(codeMappings, row)
                     ELSE codeMappings
  /\ last' = IF outcome = "created"
               THEN AfterWrite(Response(op, s, t, "created", Len(codeMappings) + 1),
                               "MAPPING_CREATED", sink)
               ELSE Unaudited(Response(op, s, t, outcome, NoRow), sink)
  /\ UNCHANGED <<namasteCodes, parentCodes, icd11Codes, stats, reqs>>

\* MappingController.updateMapping with its audit call
UpdateMappingAudited(id, ty, c, act, sink) ==
  LET op == "controller.updateMapping"
      outcome == UpdateOutcome(id, c)
  IN
  /\ UpdateEffect(id, ty, c, act)
  /\ last' = IF outcome = "updated"
               THEN AfterWrite(Response(op, "", "", "updated", id),
                               "MAPPING_UPDATED", sink)
               ELSE Unaudited(Response(op, "", "", outcome, NoRow), sink)
  /\ UNCHANGED <<namasteCodes, parentCodes, icd11Codes, stats, reqs>>

\* MappingController.deleteMapping with its audit call
DeleteMappingAudited(id, sink) ==
  LET op == "controller.deleteMapping"
  IN
  /\ DeleteEffect(id)
  /\ last' = IF id > Len(codeMappings)
               THEN Unaudited(Response(op, "", "", "not_found", NoRow), sink)
               ELSE AfterWrite(Response(op, "", "", "deleted", id),
                               "MAPPING_DELETED", sink)
  /\ UNCHANGED <<namasteCodes, parentCodes, icd11Codes, stats, reqs>>

----------------------------------------------------------------------------
(* Specification of the audited handlers with an unreliable audit sink *)

\* create requests of this specification's callers: two pairs, with no
\* confidence, 0.50 and the out-of-range 1.50
AuditCreates ==
  {[s |-> "NAM001", t |-> t, c |-> c] : t \in TargetIds, c \in {NoConfidence, 50, 150}}

NextAudit ==
  \/ \E b \in AuditCreates, sink \in SinkStates :
        CreateMappingAudited(b.s, b.t, "", b.c, sink)
  \/ \E id \in MappingIds, b \in UpdateBodies, sink \in SinkStates :
        UpdateMappingAudited(id, b.ty, b.c, b.act, sink)
  \/ \E id \in MappingIds, sink \in SinkStates : DeleteMappingAudited(id, sink)

SpecAudit == InitBatch /\ [][NextAudit]_vars

----------------------------------------------------------------------------
(* Relevance scorers: calculateRelevanceScore of the search handlers *)

\* an argument that is undefined or null
Absent == <<"undefined">>

\* !query: undefined, null or the empty string
JsFalsy(s) == s = Absent \/ s = <<>>

\* s.split(/\s+/): the pieces between runs of blanks; a run at the start or at
\* the end of s leaves an empty piece there
RECURSIVE JsSplitFrom(_, _, _, _)
JsSplitFrom(s, cur, acc, inRun) ==
  IF s = <<>> THEN Append(acc, cur)
  ELSE IF Head(s) = " "
    THEN IF inRun THEN JsSplitFrom(Tail(s), cur, acc, TRUE)
         ELSE JsSplitFrom(Tail(s), <<>>, Append(acc, cur), TRUE)
    ELSE JsSplitFrom(Tail(s), Append(cur, Head(s)), acc, FALSE)

JsSplit(s) == JsSplitFrom(s, <<>>, <<>>, FALSE)

\* Math.max(0.3, matchingWords.length / queryWords.length * 0.6)
WordMatchScore(queryLower, textLower) ==
  LET queryWords == JsSplit(queryLower)
      textWords == JsSplit(textLower)
      matchingWords == {i \in 1..Len(queryWords) :
                          \E j \in 1..Len(textWords) : Includes(textWords[j], queryWords[i])}
  IN  Max(30, (Cardinality(matchingWords) * 60) \div Len(queryWords))

\* mutant: the prefix and substring tests look in both directions and the
\* word tier is the floor
calculateRelevanceScoreSymmetric(query, text) ==
  IF JsFalsy(query) \/ JsFalsy(text) THEN 0
  ELSE LET queryLower == LowerCase(query)
           textLower == LowerCase(text)
       IN  IF textLower = queryLower THEN 100
           ELSE IF StartsWith(textLower, queryLower) \/ StartsWith(queryLower, textLower)
             THEN 90
           ELSE IF Includes(textLower, queryLower) \/ Includes(queryLower, textLower)
             THEN 70
           ELSE 30

\* calculateRelevanceScore of SearchController, ICD11Controller and
\* NamasteController (three copies of the same body)
calculateRelevanceScore(query, text) ==
  IF JsFalsy(query) \/ JsFalsy(text) THEN 0
  ELSE LET queryLower == LowerCase(query)
           textLower == LowerCase(text)
       IN  IF textLower = queryLower THEN 100
           ELSE IF StartsWith(textLower, queryLower) THEN 90
           ELSE IF Includes(textLower, queryLower) THEN 70
           ELSE WordMatchScore(queryLower, textLower)

\* \w of a regular expression
WordChar(ch) == ch \in {"a", "b", "c", "A", "B", "C"}

\* \b at offset i of text: a word character on exactly one side
WordBoundary(text, i) ==
  (i >= 1 /\ WordChar(text[i])) # (i < Len(text) /\ WordChar(text[i + 1]))

\* new RegExp(`\\b${queryLower}\\b`, 'i') throws a SyntaxError: the only
\* metacharacter of the model's strings is "(", and it opens a group that
\* nothing closes
InvalidPattern(queryLower) == \E i \in 1..Len(queryLower) : queryLower[i] = "("

\* regex.test(textLower) for a pattern made of literal characters
WholeWordMatch(textLower, queryLower) ==
  \E i \in 0..(Len(textLower) - Len(queryLower)) :
    /\ SubSeq(textLower, i + 1, i + Len(queryLower)) = queryLower
    /\ WordBoundary(textLower, i)
    /\ WordBoundary(textLower, i + Len(queryLower))

\* the call did not return: it threw
Thrown == -1

\* NamasteService.calculateRelevanceScore: the same with a whole-word tier
serviceCalculateRelevanceScore(query, text) ==
  IF JsFalsy(query) \/ JsFalsy(text) THEN 0
  ELSE LET queryLower == LowerCase(query)
           textLower == LowerCase(text)
       IN  IF textLower = queryLower THEN 100
           ELSE IF StartsWith(textLower, queryLower) THEN 90
           ELSE IF InvalidPattern(queryLower) THEN Thrown
           ELSE IF WholeWordMatch(textLower, queryLower) THEN 80
           ELSE IF Includes(textLower, queryLower) THEN 70
           ELSE WordMatchScore(queryLower, textLower)

Scored(variant, query, text, score) ==
  [Response("calculateRelevanceScore", "", "",
            IF score = Thrown THEN "raised" ELSE "scored", NoRow)
     EXCEPT !.report = [variant |-> variant, query |-> query, text |-> text,
                        score |-> score]]

\* a search handler scores one row for the query of its request
ControllerScore ==
  /\ last.op = "search"
  /\ last' = Scored("controller", last.report.query, last.report.text,
                    calculateRelevanceScore(last.report.query, last.report.text))
  /\ UNCHANGED <<namasteCodes, parentCodes, icd11Codes, codeMappings, stats, reqs>>

\* NamasteService.searchCodes scores one row for its query
ServiceScore ==
  /\ last.op = "search"
  /\ last' = Scored("service", last.report.query, last.report.text,
                    serviceCalculateRelevanceScore(last.report.query, last.report.text))
  /\ UNCHANGED <<namasteCodes, parentCodes, icd11Codes, codeMappings, stats, reqs>>

----------------------------------------------------------------------------
(* Specification of the relevance scorers over bounded strings *)

\* longest string scored
MaxLen == 3

ScoreAlphabet == {"a", "A", "b", " ", "("}

\* the strings over the alphabet up to MaxLen, the empty string included,
\* and an absent argument
ScoreInputs ==
  UNION {[1..n -> ScoreAlphabet] : n \in 0..MaxLen} \cup {Absent}

InitScore ==
  /\ namasteCodes = [c \in SourceCodes |-> "absent"]
  /\ parentCodes = [c \in SourceCodes |-> NoParent]
  /\ icd11Codes = <<>>
  /\ codeMappings = <<>>
  /\ stats = ZeroStats
  /\ \E query \in ScoreInputs, text \in ScoreInputs :
       last = [Response("search", "", "", "none", NoRow)
                 EXCEPT !.report = [query |-> query, text |-> text]]
  /\ reqs = <<>>

NextScore ==
  \/ ControllerScore
  \/ ServiceScore

SpecScore == InitScore /\ [][NextScore]_vars

----------------------------------------------------------------------------
(* Specification of the writers of confidence_score *)

\* confidence_score values of request bodies: absent, null, 0, 0.50, and the
\* out-of-range 1.50 and -0.50
ConfidenceBodies == {NoConfidence, NullConfidence, 0, 50, 150, -50}

\* data lines of a CSV file with a confidence column
CsvConfidenceLines ==
  { <<"NAM001", "1001", "", "1.5">>, <<"NAM001", "1001", "", "-0.5">>,
    <<"NAM001", "1002", "related", "0.5">>, <<"NAM001", "1002", "", "high">> }

NextConfidence ==
  \/ \E t \in TargetIds, c \in ConfidenceBodies : ControllerCreate("NAM001", t, "", c)
  \/ \E t \in TargetIds, c \in ConfidenceBodies : RouteCreate("NAM001", t, "", c)
  \/ \E line \in CsvConfidenceLines : createMappingsFromCSV(<<line>>)
  \/ createAutomaticMappings(70, <<"NAM001", "SID001">>)
  \/ \E id \in MappingIds, c \in ConfidenceBodies :
        UpdateMapping("controller.updateMapping", id, "", c, "unset")
  \/ \E id \in MappingIds, c \in ConfidenceBodies :
        UpdateMapping("route.update", id, "", c, "unset")

SpecConfidence == InitBatch /\ [][NextConfidence]_vars

----------------------------------------------------------------------------
(* Code hierarchy: creation with parent_code and the hierarchy walks *)

\* NamasteController.createCode with a parent_code in the body: 409 when the
\* code exists, 400 when the parent has no active row
ControllerCreateCode(code, parent_code) ==
  LET op == "controller.createCode"
      outcome == IF namasteCodes[code] # "absent" THEN "conflict"
                 ELSE IF parent_code # NoParent /\ ~SourceActive(parent_code)
                   THEN "parent_not_found"
                 ELSE "created"
  IN
  /\ namasteCodes' = IF outcome = "created"
                       THEN [namasteCodes EXCEPT ![code] = "active"] ELSE namasteCodes
  /\ parentCodes' = IF outcome = "created"
                      THEN [parentCodes EXCEPT ![code] = parent_code] ELSE parentCodes
  /\ last' = Response(op, code, parent_code, outcome, NoRow)
  /\ UNCHANGED <<icd11Codes, codeMappings, stats, reqs>>

\* POST /codes: validateCreateNamesteCode (parent_code is any string), 409
\* when the code exists, else NamesteCode.create(req.body)
RouteCreateCode(code, parent_code) ==
  LET op == "route.createCode"
      outcome == IF namasteCodes[code] # "absent" THEN "conflict" ELSE "created"
  IN
  /\ namasteCodes' = IF outcome = "created"
                       THEN [namasteCodes EXCEPT ![code] = "active"] ELSE namasteCodes
  /\ parentCodes' = IF outcome = "created"
                      THEN [parentCodes EXCEPT ![code] = parent_code] ELSE parentCodes
  /\ last' = Response(op, code, parent_code, outcome, NoRow)
  /\ UNCHANGED <<icd11Codes, codeMappings, stats, reqs>>

\* the result of a walk that comes back to a call it has made before: the
\* same lookups repeat and the recursion does not end
Diverges == [outcome |-> "diverges", list |-> <<>>]

\* getAncestors(code, ancestors): seen holds the parents already walked
RECURSIVE AncestorsFrom(_, _, _)
AncestorsFrom(code, ancestors, seen) ==
  LET parent == parentCodes[code]
  IN  IF parent = NoParent \/ ~SourceActive(parent)
        THEN [outcome |-> "returned", list |-> ancestors]
      ELSE IF parent \in seen THEN Diverges
      ELSE AncestorsFrom(parent, <<parent>> \o ancestors, seen \cup {parent})

\* NamesteCode.findAll({ where: { parent_code, status: 'active' } })
Children(code) ==
  {c \in SourceCodes : namasteCodes[c] = "active" /\ parentCodes[c] = code}

\* getDescendants(namasteCode, descendants): path holds the codes of the
\* calls that have not returned; the list is built in code order
RECURSIVE DescendantsOver(_, _, _)
RECURSIVE DescendantsFrom(_, _)
DescendantsOver(children, path, acc) ==
  IF children = {} \/ acc.outcome = "diverges" THEN acc
  ELSE LET child == CHOOSE c \in children : TRUE
           below == IF child \in path THEN Diverges
                    ELSE DescendantsFrom(child, path \cup {child})
       IN  DescendantsOver(children \ {child}, path,
             IF below.outcome = "diverges" THEN Diverges
             ELSE [acc EXCEPT !.list = @ \o <<child>> \o below.list])

DescendantsFrom(code, path) ==
  DescendantsOver(Children(code), path, [outcome |-> "returned", list |-> <<>>])

WalkResponse(op, code, res) ==
  [Response(op, code, "", res.outcome, NoRow) EXCEPT !.report = [list |-> res.list]]

\* NamasteService.getAncestors for the row of an existing code
getAncestors(code) ==
  /\ namasteCodes[code] # "absent"
  /\ last' = WalkResponse("service.getAncestors", code, AncestorsFrom(code, <<>>, {}))
  /\ UNCHANGED <<namasteCodes, parentCodes, icd11Codes, codeMappings, stats, reqs>>

\* NamasteService.getDescendants
getDescendants(code) ==
  /\ last' = WalkResponse("service.getDescendants", code, DescendantsFrom(code, {code}))
  /\ UNCHANGED <<namasteCodes, parentCodes, icd11Codes, codeMappings, stats, reqs>>

\* NamasteService.getCodeHierarchy: null for a code without an active row,
\* else the ancestors and then the descendants
getCodeHierarchy(code) ==
  LET up == AncestorsFrom(code, <<>>, {})
      down == DescendantsFrom(code, {code})
      res == IF ~SourceActive(code) THEN [outcome |-> "not_found", list |-> <<>>]
             ELSE IF up.outcome = "diverges" \/ down.outcome = "diverges" THEN Diverges
             ELSE [outcome |-> "returned", list |-> up.list \o down.list]
  IN
  /\ last' = WalkResponse("service.getCodeHierarchy", code, res)
  /\ UNCHANGED <<namasteCodes, parentCodes, icd11Codes, codeMappings, stats, reqs>>

----------------------------------------------------------------------------
(* Specification of the code hierarchy *)

\* parent_code values of a request body: none, or one of the codes
ParentInputs == SourceCodes \cup {NoParent}

\* items of an import with a parent: a child of NAM001, a code that names
\* itself
TreeImportItems ==
  { [code |-> "SID001", display |-> TRUE, parent_code |-> "NAM001"],
    [code |-> "UNA001", display |-> TRUE, parent_code |-> "UNA001"] }

InitTree ==
  /\ namasteCodes = [c \in SourceCodes |-> "absent"]
  /\ parentCodes = [c \in SourceCodes |-> NoParent]
  /\ icd11Codes = <<>>
  /\ codeMappings = <<>>
  /\ stats = ZeroStats
  /\ last = Response("init", "", "", "none", NoRow)
  /\ reqs = <<>>

NextTree ==
  \/ \E code \in SourceCodes, parent_code \in ParentInputs :
        ControllerCreateCode(code, parent_code)
  \/ \E code \in SourceCodes, parent_code \in ParentInputs :
        RouteCreateCode(code, parent_code)
  \/ \E item \in TreeImportItems, validate \in BOOLEAN : importCodes(<<item>>, validate)
  \/ \E code \in SourceCodes, st \in {"active", "inactive"} : UpdateCode(code, st)
  \/ \E code \in SourceCodes : getAncestors(code)
  \/ \E code \in SourceCodes : getDescendants(code)
  \/ \E code \in SourceCodes : getCodeHierarchy(code)

SpecTree == InitTree /\ [][NextTree]_vars

----------------------------------------------------------------------------
(* Specification of suggestMappingType over bounded display names *)

DisplayAlphabet == {"a", "A", "b", " "}

\* display names and titles up to MaxLen characters
DisplayInputs == UNION {[1..n -> DisplayAlphabet] : n \in 0..MaxLen}

InitType ==
  /\ namasteCodes = [c \in SourceCodes |-> "absent"]
  /\ parentCodes = [c \in SourceCodes |-> NoParent]
  /\ icd11Codes = <<>>
  /\ codeMappings = <<>>
  /\ stats = ZeroStats
  /\ \E sourceDisplay \in DisplayInputs, targetDisplay \in DisplayInputs :
       last = [Response("suggest", "", "", "none", NoRow)
                 EXCEPT !.report = [source |-> sourceDisplay, target |-> targetDisplay]]
  /\ reqs = <<>>

\* findSuggestedMappings labels one candidate with its suggested type
SuggestType ==
  /\ last.op = "suggest"
  /\ last' = [last EXCEPT !.op = "service.suggestMappingType",
                          !.outcome = suggestMappingType(last.report.source,
                                                         last.report.target)]
  /\ UNCHANGED <<namasteCodes, parentCodes, icd11Codes, codeMappings, stats, reqs>>

NextType == SuggestType

SpecType == InitType /\ [][NextType]_vars

----------------------------------------------------------------------------
(* Specification of the batch creator's counters *)

\* single createMapping calls between the batch runs of one MappingCreator:
\* a good target, a second good target, a target that does not exist; no
\* confidence or one the model rejects
NextStats ==
  \/ \E t \in {"1001", "1002", "9999"}, c \in {NoConfidence, 150} :
        BatchCreate("NAM001", t, "", c)
  \/ resetStats
  \/ \E items \in Batches(BatchItems) : createMappingsFromArray(items)
  \/ \E lines \in Batches(CsvLines) : createMappingsFromCSV(lines)
  \/ createAutomaticMappings(70, <<"NAM001", "SID001">>)
  \/ DeleteMapping("route.delete", 1)

SpecStats == InitBulk /\ [][NextStats]_vars

----------------------------------------------------------------------------
(* Properties *)

\* C1: after any sequence of createMapping (controller, route, service or
\* creator), updateMapping (also back to is_active = true) and deleteMapping
\* steps, every (namaste_code, icd11_code) pair has at most one active mapping.
C1_AtMostOneActivePerPair ==
  \A s \in SourceCodes, t \in TargetIds : ActiveCount(codeMappings, s, t) <= 1

\* a create was refused at the index while the pair's one mapping is active
C1_Witness ==
  \E r \in Slots :
    /\ reqs[r].pc = "done"
    /\ reqs[r].outcome = "unique_violation"
    /\ ActiveCount(codeMappings, reqs[r].src, reqs[r].icd) = 1

\* the request passed its duplicate check and is at, or past, the insert
PastCheck(q) ==
  \/ q.pc = "create"
  \/ q.pc = "done" /\ q.outcome \in {"created", "unique_violation"}

SamePair(q1, q2) == q1.src = q2.src /\ q1.icd = q2.icd

\* C2: two createMapping requests for one pair can both pass the duplicate
\* check and both reach the insert; which of them creates the mapping is then
\* decided by the unique index alone: never both, and the later one is refused.
C2_RaceDecidedAtPersist ==
  \A r1, r2 \in Slots :
    (r1 # r2 /\ PastCheck(reqs[r1]) /\ PastCheck(reqs[r2])
       /\ SamePair(reqs[r1], reqs[r2]))
    => /\ ~(reqs[r1].outcome = "created" /\ reqs[r2].outcome = "created")
       /\ (reqs[r1].pc = "done" /\ reqs[r2].pc = "done")
            => (reqs[r1].outcome = "unique_violation"
                  \/ reqs[r2].outcome = "unique_violation")

\* both requests found no mapping; one inserted the pair's only row, the other
\* was refused by the index
C2_Witness ==
  \E r1, r2 \in Slots :
    /\ reqs[r1].pc = "done" /\ reqs[r1].outcome = "created"
    /\ reqs[r2].pc = "done" /\ reqs[r2].outcome = "unique_violation"
    /\ SamePair(reqs[r1], reqs[r2])
    /\ Len(codeMappings) = 1
    /\ codeMappings[1].is_active

InteractiveCreateOps == {"controller.createMapping", "route.create"}

CreateOps == InteractiveCreateOps \cup {"service.createMapping", "creator.createMapping"}

\* C3: createMapping checks source-active, target-active, no-duplicate in
\* this order and the first failure wins: an unresolved source answers
\* source-not-found whatever the target, a resolved source with an unresolved
\* target answers target-not-found, a duplicate is reported only when both
\* resolve, and no failing call creates a mapping.
C3_PreconditionOrder ==
  [][ last'.op \in CreateOps =>
        LET s == last'.src
            t == last'.tgt
            out == last'.outcome
        IN  /\ (~SourceActive(s) /\ out # "validation_error")
                 => out = "source_not_found"
            /\ (SourceActive(s) /\ FindTarget(t) = NoRow /\ out # "validation_error")
                 => out = "target_not_found"
            /\ out \in {"conflict", "skipped"}
                 => (SourceActive(s) /\ FindTarget(t) # NoRow)
            /\ out # "created" => codeMappings' = codeMappings ]_vars

\* C4: icd11_code may be the target's icd_id or its secondary code; the stored
\* mapping carries the resolved icd_id, the duplicate check uses it, and so a
\* create with the secondary code of a target that already has an active
\* mapping from the same source is answered as a duplicate.
C4_AliasDetectedAsDuplicate ==
  [][ (last'.op \in CreateOps \ {"service.createMapping"}
         /\ last'.outcome # "validation_error")
      => /\ last'.outcome = "created"
              => codeMappings'[last'.id].icd11_code \in TargetIds
         /\ \A p \in TargetIds :
              ( /\ SourceActive(last'.src)
                /\ TargetActive(p)
                /\ last'.tgt \in {p, WhoEntity(p).code}
                /\ FindActiveMapping(codeMappings, last'.src, p) # NoRow )
              => last'.outcome \in {"conflict", "skipped"} ]_vars

\* C5: an interactive createMapping that repeats the arguments of the create
\* that has just succeeded answers Conflict and leaves code_mappings as it is.
C5_SecondCreateConflicts ==
  [][ ( /\ last.op \in CreateOps
        /\ last.outcome = "created"
        /\ last'.op \in InteractiveCreateOps
        /\ last'.src = last.src
        /\ last'.tgt = last.tgt
        /\ last'.outcome # "validation_error" )
      => /\ last'.outcome = "conflict"
         /\ codeMappings' = codeMappings ]_vars

\* the Conflict response, with the mapping of the pair active in the store
C5_Witness ==
  /\ last.op \in InteractiveCreateOps
  /\ last.outcome = "conflict"
  /\ FindTarget(last.tgt) # NoRow
  /\ ActiveCount(codeMappings, last.src, icd11Codes[FindTarget(last.tgt)].icd_id) = 1

C7_ExplicitConfidenceWins ==
  [][ \A s \in ApiSources, t \in TargetCodeInputs, ty \in TypeInputs,
         c \in ConfidenceInputs :
        ( (ControllerCreate(s, t, ty, c) \/ RouteCreate(s, t, ty, c))
            /\ last'.outcome = "created" )
        => LET row == codeMappings'[last'.id]
           IN  row.confidence_score =
                 IF c = NoConfidence
                   THEN ComputedConfidence(s, row.icd11_code)
                   ELSE c ]_vars

\* C8: only active mappings count as duplicates: with the pair's mapping
\* soft-deleted and both codes active, createMapping succeeds and the pair has
\* an active mapping again.
C8_RecreateAfterSoftDelete ==
  [][ ( /\ last'.op \in InteractiveCreateOps
        /\ last'.outcome # "validation_error"
        /\ SourceActive(last'.src)
        /\ FindTarget(last'.tgt) # NoRow
        /\ LET icd == icd11Codes[FindTarget(last'.tgt)].icd_id
           IN  /\ FindAnyMapping(codeMappings, last'.src, icd) # NoRow
               /\ FindActiveMapping(codeMappings, last'.src, icd) = NoRow )
      => /\ last'.outcome = "created"
         /\ ActiveCount(codeMappings',
                        last'.src, icd11Codes[FindTarget(last'.tgt)].icd_id) = 1 ]_vars

\* C9: no step removes a stored mapping or terminology entry: every mapping
\* id keeps its row and its pair, every source code and every icd_id stays in
\* its table; deleteMapping and deactivation only flip is_active / status.
C9_NothingRemoved ==
  [][ /\ Len(codeMappings') >= Len(codeMappings)
      /\ \A i \in 1..Len(codeMappings) :
           /\ codeMappings'[i].namaste_code = codeMappings[i].namaste_code
           /\ codeMappings'[i].icd11_code = codeMappings[i].icd11_code
      /\ \A code \in SourceCodes :
           namasteCodes[code] # "absent" => namasteCodes'[code] # "absent"
      /\ Len(icd11Codes') >= Len(icd11Codes)
      /\ \A j \in 1..Len(icd11Codes) : icd11Codes'[j].icd_id = icd11Codes[j].icd_id
    ]_vars

\* a mapping was soft-deleted and its source entry deactivated; both are stored
C9_Witness ==
  /\ last.op \in {"controller.deleteMapping", "route.delete"}
  /\ last.outcome = "deleted"
  /\ ~codeMappings[last.id].is_active
  /\ namasteCodes[codeMappings[last.id].namaste_code] = "inactive"

SourceNotActive(code) == namasteCodes[code] # "active"

TargetNotActive(icd_id) ==
  \A j \in 1..Len(icd11Codes) :
    icd11Codes[j].icd_id = icd_id => icd11Codes[j].status # "active"

BrokenReference(m) ==
  m.is_active /\ (SourceNotActive(m.namaste_code) \/ TargetNotActive(m.icd11_code))

\* C10: a validateMappings run reports every active mapping whose source or
\* target entry is not active as invalid, with an issue naming it, and changes
\* no mapping.
C10_ValidateReportsAndLeavesMappings ==
  [][ last'.op = "creator.validateMappings"
      => /\ codeMappings' = codeMappings
         /\ \A i \in 1..Len(codeMappings) :
              BrokenReference(codeMappings[i])
              => \E k \in 1..Len(last'.report.issues) :
                   /\ last'.report.issues[k].mapping_id = i
                   /\ last'.report.issues[k].issue
                        \in {"source_inactive", "target_inactive"}
         /\ last'.report.invalid =
              Cardinality({i \in 1..Len(codeMappings) :
                             BrokenReference(codeMappings[i])}) ]_vars

\* the report names a mapping whose target was deactivated; it is still active
C10_Witness ==
  /\ last.op = "creator.validateMappings"
  /\ last.report.invalid >= 1
  /\ \E k \in 1..Len(last.report.issues) :
       /\ last.report.issues[k].issue = "target_inactive"
       /\ codeMappings[last.report.issues[k].mapping_id].is_active
       /\ TargetNotActive(codeMappings[last.report.issues[k].mapping_id].icd11_code)

ActiveMappingIds == {i \in 1..Len(codeMappings) : codeMappings[i].is_active}

BrokenIds == {i \in ActiveMappingIds : BrokenReference(codeMappings[i])}

Drifted(m) ==
  Abs(ComputedConfidence(m.namaste_code, m.icd11_code) - m.confidence_score)
    > DriftThreshold

\* C11: validateMappings counts an active mapping invalid exactly when its
\* source or target entry is not active; a drift above the threshold on a
\* mapping with both entries active adds a confidence_drift issue and the
\* mapping is counted valid.
C11_InvalidIffBrokenReference ==
  [][ last'.op = "creator.validateMappings"
      => LET rep == last'.report
             driftIds == {i \in ActiveMappingIds \ BrokenIds : Drifted(codeMappings[i])}
         IN  /\ rep.invalid = Cardinality(BrokenIds)
             /\ rep.valid = Cardinality(ActiveMappingIds \ BrokenIds)
             /\ \A i \in driftIds :
                  \E k \in 1..Len(rep.issues) :
                    rep.issues[k] = Issue(i, "confidence_drift")
             /\ \A k \in 1..Len(rep.issues) :
                  rep.issues[k].issue = "confidence_drift"
                    => rep.issues[k].mapping_id \in driftIds ]_vars

\* one report with a drifted mapping counted valid and a broken one invalid
C11_Witness ==
  /\ last.op = "creator.validateMappings"
  /\ last.report.valid >= 1
  /\ last.report.invalid >= 1
  /\ \E k \in 1..Len(last.report.issues) :
       /\ last.report.issues[k].issue = "confidence_drift"
       /\ last.report.issues[k].mapping_id \in ActiveMappingIds \ BrokenIds

IssueKinds(issues, id) ==
  {issues[k].issue : k \in {j \in 1..Len(issues) : issues[j].mapping_id = id}}

\* C12: for an active mapping, validateMapping reports the same set of issue
\* kinds as validateMappings reports for that mapping, and is_valid = false
\* exactly when validateMappings counts it invalid.
C12_SingleAgreesWithAll ==
  [][ ( /\ last'.op = "service.validateMapping"
        /\ last'.outcome = "report"
        /\ codeMappings[last'.id].is_active )
      => LET all == ValidateFrom(1, NoReport)
         IN  /\ IssueKinds(last'.report.issues, last'.id)
                  = IssueKinds(all.issues, last'.id)
             /\ (last'.report.invalid = 1) <=> (last'.id \in BrokenIds) ]_vars

\* the entry a translate request addresses: a source entry when the system
\* names the namaste family, else the target entry with that icd_id
Addressed(system, code) ==
  IF Includes(system, NamasteToken)
    THEN code \in SourceCodes /\ namasteCodes[code] = "active"
    ELSE \E j \in 1..Len(icd11Codes) :
           icd11Codes[j].icd_id = code /\ icd11Codes[j].status = "active"

\* the active mappings a translate request is about
MappingsOf(system, code) ==
  {i \in ActiveMappingIds :
     IF Includes(system, NamasteToken)
       THEN codeMappings[i].namaste_code = code
       ELSE codeMappings[i].icd11_code = code}

\* C13: translateCode answers unsupported-system exactly when the system holds
\* neither "namaste" nor "icd", not-found exactly when the system is supported
\* and the code is not an active entry of it, and an empty list (no error) for
\* an active entry without active mappings.
C13_TranslateOutcomes ==
  [][ last'.op = "fhir.translateCode"
      => LET system == last'.report.system
             code == last'.tgt
             supported == Includes(system, NamasteToken) \/ Includes(system, IcdToken)
         IN  /\ (last'.outcome = "unsupported_system") <=> ~supported
             /\ (last'.outcome = "not_found")
                  <=> (supported /\ ~Addressed(system, code))
             /\ (supported /\ Addressed(system, code)
                   /\ MappingsOf(system, code) = {})
                  => (last'.outcome = "translated" /\ last'.report.matches = <<>>)
    ]_vars

\* an active entry whose only mapping was soft-deleted translates to the empty list
C13_Witness ==
  /\ last.op = "fhir.translateCode"
  /\ last.outcome = "translated"
  /\ last.report.matches = <<>>
  /\ last.report.system = IcdToken \o <<"-">> \o NamasteToken
  /\ \E i \in 1..Len(codeMappings) :
       codeMappings[i].namaste_code = last.tgt /\ ~codeMappings[i].is_active

\* the code a result entry names for mapping m
OtherCode(system, m) ==
  IF Includes(system, NamasteToken) THEN m.icd11_code ELSE m.namaste_code

\* C14: a successful translate returns one entry per active mapping of the
\* code in the requested direction, with equivalence = mapping_type, and no
\* entry for any other row; a soft-deleted mapping contributes none.
C14_OneResultPerActiveMapping ==
  [][ (last'.op = "fhir.translateCode" /\ last'.outcome = "translated")
      => LET system == last'.report.system
             matches == last'.report.matches
             ids == MappingsOf(system, last'.tgt)
         IN  /\ Len(matches) = Cardinality(ids)
             /\ \A i \in ids :
                  \E k \in 1..Len(matches) :
                    /\ matches[k].concept.code = OtherCode(system, codeMappings[i])
                    /\ matches[k].equivalence = codeMappings[i].mapping_type
             /\ \A k \in 1..Len(matches) :
                  \E i \in ids :
                    matches[k].concept.code = OtherCode(system, codeMappings[i])
    ]_vars

\* one result for a target that has an active and a soft-deleted mapping
C14_Witness ==
  /\ last.op = "fhir.translateCode"
  /\ last.outcome = "translated"
  /\ Len(last.report.matches) = 1
  /\ \E i \in 1..Len(codeMappings) :
       /\ ~codeMappings[i].is_active
       /\ codeMappings[i].icd11_code = last.tgt
  /\ \E i \in ActiveMappingIds : codeMappings[i].icd11_code = last.tgt

\* the target entries the concept map holds for mapping m in group g
EntriesFor(g, m) ==
  {k \in 1..Len(g.element) :
     /\ g.element[k].code = m.namaste_code
     /\ g.element[k].target = <<[code |-> m.icd11_code,
                                 equivalence |-> m.mapping_type,
                                 comment |-> m.notes]>>}

\* C15: generateConceptMap puts every active mapping once into the group of
\* its source entry's system type and into no other group, puts no inactive
\* mapping anywhere, and gives every group the same target URI.
C15_ConceptMapGroups ==
  [][ last'.op = "fhir.generateConceptMap"
      => LET group == last'.report.group
         IN  /\ \A i \in 1..Len(codeMappings) :
                  \A g \in 1..Len(group) :
                    Cardinality(EntriesFor(group[g], codeMappings[i])) =
                      IF /\ codeMappings[i].is_active
                         /\ group[g].source =
                              SourceSystem(SourceInput(codeMappings[i].namaste_code).system_type)
                        THEN 1 ELSE 0
             /\ \A i \in ActiveMappingIds :
                  \E g \in 1..Len(group) :
                    EntriesFor(group[g], codeMappings[i]) # {}
             /\ \A g \in 1..Len(group) : group[g].target = TargetUri
    ]_vars

\* scores of the candidates createAutomaticMappings scans for source s
CandidateScores(s) ==
  {ComputedConfidence(s, icd11Codes[j].icd_id) :
     j \in {k \in 1..Len(icd11Codes) :
              icd11Codes[k].status = "active" /\ icd11Codes[k].module = "tm2"}}

BestScore(s) ==
  IF CandidateScores(s) = {} THEN 0
  ELSE CHOOSE x \in CandidateScores(s) : \A y \in CandidateScores(s) : y <= x

\* rows appended by the step
AddedIds == (Len(codeMappings) + 1)..Len(codeMappings')

\* C16: after createAutomaticMappings(threshold) an active source whose best
\* candidate scores >= threshold has an active mapping with that score's
\* target (made now unless it was there), and a source whose best candidate
\* scores below the threshold gets no mapping; no source is counted as an error.
C16_MappedIffBestReachesThreshold ==
  [][ last'.op = "creator.createAutomaticMappings"
      => /\ \A s \in SourceCodes :
              namasteCodes[s] = "active"
              => IF BestScore(s) > 0 /\ BestScore(s) >= last'.report.threshold
                   THEN \E i \in 1..Len(codeMappings') :
                          /\ codeMappings'[i].namaste_code = s
                          /\ codeMappings'[i].is_active
                          /\ ComputedConfidence(s, codeMappings'[i].icd11_code)
                               = BestScore(s)
                   ELSE \A i \in AddedIds : codeMappings'[i].namaste_code # s
         /\ stats'.errors = 0 ]_vars

\* the first of the scanned candidates with the best score
FirstBest(s) ==
  LET hits == {j \in 1..Len(icd11Codes) :
                 /\ icd11Codes[j].status = "active" /\ icd11Codes[j].module = "tm2"
                 /\ ComputedConfidence(s, icd11Codes[j].icd_id) = BestScore(s)}
  IN  icd11Codes[CHOOSE j \in hits : \A k \in hits : j <= k].icd_id

\* C17: createAutomaticMappings calls createMapping at most once per active
\* source and adds at most one row per source; an added row maps the source to
\* the first scanned candidate with the maximal score, with mapping_type
\* equivalent and confidence_score equal to that score.
C17_SingleBestMatch ==
  [][ last'.op = "creator.createAutomaticMappings"
      => /\ stats'.processed
              <= Cardinality({s \in SourceCodes : namasteCodes[s] = "active"})
         /\ \A i, j \in AddedIds :
              codeMappings'[i].namaste_code = codeMappings'[j].namaste_code => i = j
         /\ \A i \in AddedIds :
              LET m == codeMappings'[i]
              IN  /\ m.icd11_code = FirstBest(m.namaste_code)
                  /\ m.mapping_type = "equivalent"
                  /\ m.confidence_score = BestScore(m.namaste_code)
                  /\ m.is_active ]_vars

\* NAM001 was mapped while its two best candidates scored the same
C17_Witness ==
  /\ last.op = "creator.createAutomaticMappings"
  /\ stats.created >= 1
  /\ ~TargetActive("1001") /\ TargetActive("1002") /\ TargetActive("2001")
  /\ \E i \in ActiveMappingIds :
       /\ codeMappings[i].namaste_code = "NAM001"
       /\ codeMappings[i].confidence_score = 90
       /\ codeMappings[i].icd11_code = FirstBest("NAM001")
       /\ codeMappings[i].notes = AutoNote

\* C18: the list findSuggestedMappings returns is sorted by confidence_score,
\* highest first.
C18_SuggestionsSortedByScore ==
  [][ (last'.op = "service.findSuggestedMappings" /\ last'.outcome = "suggestions")
      => LET list == last'.report.suggestions
         IN  \A k \in 1..(Len(list) - 1) :
               list[k].confidence_score >= list[k + 1].confidence_score ]_vars

\* the active tm2 rows whose title holds a search term of source s
Candidates(s) ==
  {icd11Codes[i].icd_id :
     i \in {j \in 1..Len(icd11Codes) :
              /\ icd11Codes[j].module = "tm2"
              /\ icd11Codes[j].status = "active"
              /\ TitleMatches(WhoEntity(icd11Codes[j].icd_id).title,
                              SearchTerms(SourceInput(s).display_name))}}

\* C19: findSuggestedMappings returns at most limit entries, and no matching
\* active candidate left out of the list scores higher than a returned one.
C19_TopScoringWithinLimit ==
  [][ (last'.op = "service.findSuggestedMappings" /\ last'.outcome = "suggestions")
      => LET list == last'.report.suggestions
             returned == {list[k].icd11_code : k \in 1..Len(list)}
         IN  /\ Len(list) <= last'.report.limit
             /\ \A c \in Candidates(last'.src) \ returned :
                  \A k \in 1..Len(list) :
                    ComputedConfidence(last'.src, c) <= list[k].confidence_score
    ]_vars

BatchOps ==
  {"creator.createMappingsFromArray", "creator.createMappingsFromCSV",
   "creator.createAutomaticMappings", "namaste.importCodes"}

\* the items of a batch that are not blank lines
DataItems(items) == {k \in 1..Len(items) : items[k] # <<>>}

\* the sources of an automatic run that have a match at the threshold
MatchedSources(order, threshold) ==
  {k \in 1..Len(order) :
     SourceActive(order[k]) /\ BestFrom(1, order[k], threshold, NoBest).icd # ""}

\* C20: a batch operation returns its statistics instead of raising, and the
\* returned counts account for every item of the input, failing ones included:
\* created + skipped + errors (imported + skipped + errors for importCodes)
\* is the number of items.
C20_BatchAccountsForEveryItem ==
  [][ last'.op \in BatchOps
      => /\ last'.outcome = "stats"
         /\ last'.op \in {"creator.createMappingsFromArray",
                          "creator.createMappingsFromCSV"}
              => /\ stats'.processed = Cardinality(DataItems(last'.report.items))
                 /\ stats'.created + stats'.skipped + stats'.errors = stats'.processed
         /\ last'.op = "creator.createAutomaticMappings"
              => /\ stats'.processed =
                      Cardinality(MatchedSources(last'.report.order,
                                                 last'.report.threshold))
                 /\ stats'.created + stats'.skipped + stats'.errors = stats'.processed
         /\ last'.op = "namaste.importCodes"
              => LET r == last'.report.result
                 IN  r.imported + r.skipped + r.errors = Len(last'.report.items)
    ]_vars

\* C21: when recording the audit event fails during createMapping,
\* updateMapping or deleteMapping, the mapping change is persisted and the
\* handler answers with its success result.
C21_AuditFailureDoesNotFailOperation ==
  [][ (last'.op \in {"controller.createMapping", "controller.updateMapping",
                     "controller.deleteMapping"}
       /\ last'.report.sink = "down"
       /\ last'.outcome \notin {"source_not_found", "target_not_found", "conflict",
                                "validation_error", "unique_violation", "not_found"})
      => /\ last'.outcome \in {"created", "updated", "deleted"}
         /\ last'.id \in 1..Len(codeMappings')
         /\ last'.op = "controller.createMapping"
              => /\ Len(codeMappings') = Len(codeMappings) + 1
                 /\ last'.id = Len(codeMappings')
                 /\ codeMappings'[last'.id].is_active
         /\ last'.op = "controller.deleteMapping"
              => ~codeMappings'[last'.id].is_active
         /\ last'.op = "controller.updateMapping"
              => \E b \in UpdateBodies :
                   codeMappings'[last'.id] =
                     UpdatedRow(codeMappings[last'.id], b.ty, b.c, b.act)
    ]_vars

\* a mapping was created while the audit sink was down
C21_Witness ==
  /\ last.op = "controller.createMapping"
  /\ last.report.sink = "down"
  /\ last.report.audit = "null"
  /\ last.outcome = "created"
  /\ last.id = Len(codeMappings)
  /\ codeMappings[last.id].is_active

\* the scorer behind a scored response, applied to other arguments
ScoreOf(variant, query, text) ==
  IF variant = "controller" THEN calculateRelevanceScore(query, text)
  ELSE serviceCalculateRelevanceScore(query, text)

ScoreReturned == last.op = "calculateRelevanceScore"

\* C22: score(a, b) is 0.0 exactly when an input is empty or absent, and for
\* every pair of non-empty strings the call returns a score within [0.3, 1.0].
C22_ZeroIffEmptyElseAboveFloor ==
  ScoreReturned
    => LET r == last.report
           empty == JsFalsy(r.query) \/ JsFalsy(r.text)
       IN  /\ last.outcome = "scored"
           /\ (r.score = 0) <=> empty
           /\ ~empty => (r.score >= 30 /\ r.score <= 100)

\* C23: score(a, b) is 1.0 whenever a and b are non-empty and equal after
\* lowercasing and trimming (so score(x, x) is 1.0 for every non-empty x).
C23_EqualAfterNormalisingScoresOne ==
  ScoreReturned
    => LET r == last.report
       IN  (/\ ~JsFalsy(r.query) /\ ~JsFalsy(r.text)
            /\ Trim(LowerCase(r.query)) = Trim(LowerCase(r.text)))
           => r.score = 100

\* C24: for non-empty a and b that differ in lower case, if one is a prefix
\* of the other, in either direction, score(a, b) is 0.9.
C24_PrefixEitherDirection ==
  ScoreReturned
    => LET r == last.report
           a == LowerCase(r.query)
           b == LowerCase(r.text)
       IN  (/\ ~JsFalsy(r.query) /\ ~JsFalsy(r.text)
            /\ a # b
            /\ (StartsWith(a, b) \/ StartsWith(b, a)))
           => r.score = 90

\* the text of the scored pair starts with the query and is longer
ProperPrefixScored ==
  /\ ScoreReturned
  /\ ~JsFalsy(last.report.query) /\ ~JsFalsy(last.report.text)
  /\ LowerCase(last.report.query) # LowerCase(last.report.text)
  /\ StartsWith(LowerCase(last.report.text), LowerCase(last.report.query))

\* C25: the scorer is not symmetric, the prefix tier being directional: when
\* y starts with x and is longer, score(x, y) is 0.9 and score(y, x) is not.
C25_PrefixTierDirectional ==
  ProperPrefixScored
    => LET r == last.report
       IN  /\ r.score = 90
           /\ ScoreOf(r.variant, r.text, r.query) # r.score

\* a pair of non-empty strings x, y with score(x, y) = 0.9 and score(y, x) = 0.3
C25_Witness ==
  /\ ProperPrefixScored
  /\ last.report.score = 90
  /\ ScoreOf(last.report.variant, last.report.text, last.report.query) = 30

ConfidenceInRange(row) == row.confidence_score >= 0 /\ row.confidence_score <= 100

\* C26: every stored mapping has a confidence_score within [0.0, 1.0], and a
\* request that is rejected as a validation error leaves the mapping table
\* as it was.
C26_StoredConfidenceInRange ==
  [][ /\ \A i \in 1..Len(codeMappings') : ConfidenceInRange(codeMappings'[i])
      /\ last'.outcome = "validation_error" => codeMappings' = codeMappings
    ]_vars

\* the codes reached from code by following parent_code at most n times
RECURSIVE AncestorSet(_, _)
AncestorSet(code, n) ==
  IF n = 0 \/ parentCodes[code] \notin SourceCodes THEN {}
  ELSE {parentCodes[code]} \cup AncestorSet(parentCodes[code], n - 1)

\* C27: the parent_code relation among the stored codes is a tree: no code
\* is its own parent or its own ancestor.
C27_ParentRelationIsTree ==
  \A code \in SourceCodes :
    namasteCodes[code] # "absent"
      => code \notin AncestorSet(code, Cardinality(SourceCodes))

\* C28: getAncestors, getDescendants and getCodeHierarchy end for every code
\* in every reachable store and return a list.
C28_WalksTerminate ==
  [][ last'.op \in {"service.getAncestors", "service.getDescendants",
                    "service.getCodeHierarchy"}
      => last'.outcome \in {"returned", "not_found"} ]_vars

\* the number of words of a display name
WordsOf(display) == Len(Words(LowerCase(display)))

\* C29: the suggested type is 'equivalent' if the lower-cased names are equal
\* or one contains the other, otherwise 'narrower' if the source has more
\* words than the target, otherwise 'broader' if the target has more words,
\* otherwise 'related'.
C29_SuggestedTypeOrder ==
  last.op = "service.suggestMappingType"
    => LET source == LowerCase(last.report.source)
           target == LowerCase(last.report.target)
       IN  last.outcome =
             IF source = target \/ Includes(source, target) \/ Includes(target, source)
               THEN "equivalent"
             ELSE IF WordsOf(source) > WordsOf(target) THEN "narrower"
             ELSE IF WordsOf(target) > WordsOf(source) THEN "broader"
             ELSE "related"

StatsBalanced(st) == st.processed = st.created + st.skipped + st.errors

\* the createMapping calls a batch run makes for its input
CallsMade(op, report) ==
  CASE op = "creator.createMappingsFromArray" -> Len(report.items)
    [] op = "creator.createMappingsFromCSV" ->
         Cardinality({k \in 1..Len(report.items) : Len(report.items[k]) >= 2})
    [] op = "creator.createAutomaticMappings" ->
         Cardinality(MatchedSources(report.order, report.threshold))

\* C30: every createMapping call of the batch creator adds one to processed
\* and one to exactly one of created, skipped and errors; a batch run (array,
\* CSV or automatic) starts its counters from zero, so that they count the
\* calls of that run only; after every step processed = created + skipped +
\* errors.
C30_StatsBalanced ==
  [][ /\ StatsBalanced(stats')
      /\ last'.op = "creator.createMapping"
           => \E f \in {"created", "skipped", "errors"} :
                stats' = [stats EXCEPT !.processed = @ + 1, ![f] = @ + 1]
      /\ last'.op \in {"creator.createMappingsFromArray",
                       "creator.createMappingsFromCSV",
                       "creator.createAutomaticMappings"}
           => stats'.processed = CallsMade(last'.op, last'.report)
    ]_vars

\* a batch run that created one mapping and failed on one item, after an
\* earlier call of the same creator had created another mapping
C30_Witness ==
  /\ last.op = "creator.createMappingsFromArray"
  /\ stats.created = 1
  /\ stats.errors = 1
  /\ stats.processed = 2
  /\ Len(codeMappings) > stats.created

====
